---- MODULE Spec2Model ----
(***************************************************************************)
(* A model of tex-math-parser: tokenizeTex (src/src/tokenizeTex.ts) turns  *)
(* a TeX string into a token list, parseTokens (src/src/parseTokens.ts)    *)
(* turns a token list into a MathJS expression tree.                       *)
(*                                                                         *)
(* Strings are TLA+ strings; a character is a string of length 1.  Indices *)
(* (the lexer's i, the parser's pos, Token.pos) are 0-based as in the      *)
(* source.  The lexer runs one loop iteration per step.  The parser is a   *)
(* set of mutually recursive operators, one per method of class Parser,    *)
(* each taking the token list and the cursor and returning either          *)
(* [ok |-> TRUE, node/nodes/token, pos] or [ok |-> FALSE, name, token,     *)
(* msg, pos] (the exception thrown, pos the cursor at the throw).          *)
(***************************************************************************)
EXTENDS Integers, Sequences, FiniteSets, TLC

VARIABLES
  texStr,   \* tokenizeTex: the input string (or NoInput when tokens are given directly)
  i,        \* tokenizeTex: the scan position
  tokens,   \* tokenizeTex: the token list built so far; parseTokens: its argument
  phase,    \* "lex" | "lexed" | "parsed" | "LexError" | "TypeError" | "ParseError"
  error,    \* the exception thrown, or NoError
  pos,      \* Parser.pos after parseTokens returned or threw (0 before)
  root      \* the tree parseTokens returned, or NoNode

vars == <<texStr, i, tokens, phase, error, pos, root>>

NoInput == [none |-> "input"]
NoError == [name |-> "none"]
NoNode == [type |-> "none"]

(***************************************************************************)
(* Token.ts: the lexical tables.                                           *)
(***************************************************************************)

\* lexeme -> TokenType
lexemeToType ==
  [l \in {"=", "+", "-", "*", "\\cdot", "\\times", "^", "_", "/", ",", "{", "}",
          "(", ")", "|", "&", "bmatrix", "\\\\", "\\sqrt", "\\frac", "\\sin",
          "\\cos", "\\tan", "\\csc", "\\sec", "\\cot", "\\arcsin", "\\arccos",
          "\\arctan", "\\sinh", "\\cosh", "\\tanh", "\\log", "\\ln", "\\pi", "e",
          "\\begin", "\\end", "\\left", "\\right", "T", "\\det", "\\operatorname",
          "eigenvectors", "eigenvalues", "cross", "proj", "comp", "norm", "inv"} |->
     CASE l = "=" -> "Equals"
       [] l = "+" -> "Plus"
       [] l = "-" -> "Minus"
       [] l = "*" -> "Star"
       [] l = "\\cdot" -> "Star"
       [] l = "\\times" -> "Times"
       [] l = "^" -> "Caret"
       [] l = "_" -> "Underscore"
       [] l = "/" -> "Slash"
       [] l = "," -> "Comma"
       [] l = "{" -> "Lbrace"
       [] l = "}" -> "Rbrace"
       [] l = "(" -> "Lparen"
       [] l = ")" -> "Rparen"
       [] l = "|" -> "Bar"
       [] l = "&" -> "Amp"
       [] l = "bmatrix" -> "Matrix"
       [] l = "\\\\" -> "Dblbackslash"
       [] l = "\\sqrt" -> "Sqrt"
       [] l = "\\frac" -> "Frac"
       [] l = "\\sin" -> "Sin"
       [] l = "\\cos" -> "Cos"
       [] l = "\\tan" -> "Tan"
       [] l = "\\csc" -> "Csc"
       [] l = "\\sec" -> "Sec"
       [] l = "\\cot" -> "Cot"
       [] l = "\\arcsin" -> "Arcsin"
       [] l = "\\arccos" -> "Arccos"
       [] l = "\\arctan" -> "Arctan"
       [] l = "\\sinh" -> "Sinh"
       [] l = "\\cosh" -> "Cosh"
       [] l = "\\tanh" -> "Tanh"
       [] l = "\\log" -> "Log"
       [] l = "\\ln" -> "Ln"
       [] l = "\\pi" -> "Pi"
       [] l = "e" -> "E"
       [] l = "\\begin" -> "Begin"
       [] l = "\\end" -> "End"
       [] l = "\\left" -> "Left"
       [] l = "\\right" -> "Right"
       [] l = "T" -> "T"
       [] l = "\\det" -> "Det"
       [] l = "\\operatorname" -> "Opname"
       [] l = "eigenvectors" -> "Eigenvectors"
       [] l = "eigenvalues" -> "Eigenvalues"
       [] l = "cross" -> "Cross"
       [] l = "proj" -> "Proj"
       [] l = "comp" -> "Comp"
       [] l = "norm" -> "Norm"
       [] l = "inv" -> "Inv"]

\* The part of the lexeme table that parseTokens.ts and tokenizeTex.ts rely on
\* (TokenType.Colon, Notequals, ..., Symbol) and that the Token.ts under src/
\* does not hold: the comparison, assignment and literal lexemes of the
\* specification.
lexemeToTypeExt ==
  [l \in {":", "\\ne", "\\neq", "<", "\\le", "\\leq", ">", "\\ge", "\\geq",
          "\\mathrm", "\\mathbf", "True", "False", "?"} |->
     CASE l = ":" -> "Colon"
       [] l \in {"\\ne", "\\neq"} -> "Notequals"
       [] l = "<" -> "Less"
       [] l \in {"\\le", "\\leq"} -> "Lessequal"
       [] l = ">" -> "Greater"
       [] l \in {"\\ge", "\\geq"} -> "Greaterequal"
       [] l = "\\mathrm" -> "Mathrm"
       [] l = "\\mathbf" -> "Mathbf"
       [] l = "True" -> "True"
       [] l = "False" -> "False"
       [] l = "?" -> "Undefined"]

\* symbol lexeme -> canonical identifier (imported by tokenizeTex.ts and
\* parseTokens.ts from Token.ts; the table itself is not under src/).
lexemeToSymbol ==
  [l \in {"\\alpha", "\\theta"} |->
     CASE l = "\\alpha" -> "alpha"
       [] l = "\\theta" -> "theta"]

\* The value a failed table lookup yields.
undefined == "undefined"

\* TokenType -> operation name
typeToOperation ==
  [t \in {"Plus", "Minus", "Star", "Times", "Caret", "Slash", "Frac", "Bar",
          "Sqrt", "Sin", "Cos", "Tan", "Csc", "Sec", "Cot", "Arcsin", "Arccos",
          "Arctan", "Sinh", "Cosh", "Tanh", "Log", "Ln", "Det", "Eigenvectors",
          "Eigenvalues", "Cross", "Proj", "Comp", "Norm", "Inv"} |->
     CASE t = "Plus" -> "add"
       [] t = "Minus" -> "subtract"
       [] t = "Star" -> "multiply"
       [] t = "Times" -> "multiply"
       [] t = "Caret" -> "pow"
       [] t = "Slash" -> "divide"
       [] t = "Frac" -> "divide"
       [] t = "Bar" -> "abs"
       [] t = "Sqrt" -> "sqrt"
       [] t = "Sin" -> "sin"
       [] t = "Cos" -> "cos"
       [] t = "Tan" -> "tan"
       [] t = "Csc" -> "csc"
       [] t = "Sec" -> "sec"
       [] t = "Cot" -> "cot"
       [] t = "Arcsin" -> "asin"
       [] t = "Arccos" -> "acos"
       [] t = "Arctan" -> "atan"
       [] t = "Sinh" -> "sinh"
       [] t = "Cosh" -> "cosh"
       [] t = "Tanh" -> "tanh"
       [] t = "Log" -> "log10"
       [] t = "Ln" -> "log"
       [] t = "Det" -> "det"
       [] t = "Eigenvectors" -> "eigenvectors"
       [] t = "Eigenvalues" -> "eigenvalues"
       [] t = "Cross" -> "cross"
       [] t = "Proj" -> "proj"
       [] t = "Comp" -> "comp"
       [] t = "Norm" -> "norm"
       [] t = "Inv" -> "inv"]

\* The operation names of the comparison operators (the entries of
\* typeToOperation that the Token.ts under src/ does not hold).
typeToOperationExt ==
  [t \in {"Equals", "Notequals", "Less", "Lessequal", "Greater", "Greaterequal"} |->
     CASE t = "Equals" -> "equal"
       [] t = "Notequals" -> "unequal"
       [] t = "Less" -> "smaller"
       [] t = "Lessequal" -> "smallerEq"
       [] t = "Greater" -> "larger"
       [] t = "Greaterequal" -> "largerEq"]

\* new Token(lexeme, type, pos)
Token(lexeme, type, p) == [lexeme |-> lexeme, type |-> type, pos |-> p]

(***************************************************************************)
(* tokenizeTex.ts: character classes and scanners.                         *)
(***************************************************************************)

Alpha ==
  {"a", "b", "c", "d", "e", "f", "g", "h", "i", "j", "k", "l", "m", "n", "o", "p",
   "q", "r", "s", "t", "u", "v", "w", "x", "y", "z", "A", "B", "C", "D", "E", "F",
   "G", "H", "I", "J", "K", "L", "M", "N", "O", "P", "Q", "R", "S", "T", "U", "V",
   "W", "X", "Y", "Z"}

Digit == {"0", "1", "2", "3", "4", "5", "6", "7", "8", "9"}

\* The characters ' ' to '~' that are neither letters nor digits (all but the
\* backquote, which a TLA+ string cannot hold).
Punctuation ==
  {" ", "!", "\"", "#", "$", "%", "&", "'", "(", ")", "*", "+", ",", "-", ".", "/",
   ":", ";", "<", "=", ">", "?", "@", "[", "\\", "]", "^", "_", "{", "|", "}",
   "~"}

\* The characters String.prototype.trim removes (those a TLA+ string can hold).
WhitespaceChars == {" ", "\t", "\n", "\r", "\f"}

\* The property names every object inherits from Object.prototype: the in
\* operator finds them in lexemeToType too.
ObjectPrototypeKeys ==
  {"constructor", "hasOwnProperty", "isPrototypeOf", "propertyIsEnumerable",
   "toLocaleString", "toString", "valueOf"}

\* The type of a token whose lexeme is an inherited property name: the
\* inherited function, no TokenType.
InheritedFunction == "function"

\* str[i]: the character at i, undefined outside the string.
charAt(str, k) ==
  IF 0 <= k /\ k < Len(str) THEN SubSeq(str, k + 1, k + 1) ELSE undefined

\* str.slice(from, to)
slice(str, from, to) == SubSeq(str, from + 1, to)

\* c.trim() === '' (c is a character; c.trim() throws on undefined, see skipWhitespace)
isWhitespace(c) == c \in WhitespaceChars

isAlpha(c) == c \in Alpha

\* /[^ -~]/.test(c): some character of c lies outside ' '..'~'.  The string
\* "undefined" (what test() makes of undefined) has no such character.
isControl(c) == Len(c) = 1 /\ c \notin (Alpha \cup Digit \cup Punctuation)

isDigit(c) == c \in Digit

\* lexemeToType[l]: the own entry, else the inherited property, else undefined.
typeOfLexeme(l) ==
  IF l \in DOMAIN lexemeToType THEN lexemeToType[l]
  ELSE IF l \in DOMAIN lexemeToTypeExt THEN lexemeToTypeExt[l]
  ELSE IF l \in ObjectPrototypeKeys THEN InheritedFunction
  ELSE undefined

\* l in lexemeToType
inLexemeToType(l) == typeOfLexeme(l) # undefined

RECURSIVE alphaEnd(_, _)
alphaEnd(str, end) ==
  IF isAlpha(charAt(str, end)) THEN alphaEnd(str, end + 1) ELSE end

scanWord(str, p) ==
  IF ~isAlpha(charAt(str, p)) THEN "" ELSE slice(str, p, alphaEnd(str, p))

RECURSIVE digitEnd(_, _)
digitEnd(str, end) ==
  IF isDigit(charAt(str, end)) THEN digitEnd(str, end + 1) ELSE end

RECURSIVE numberEndMutant(_, _)
numberEndMutant(str, end) ==
  IF isDigit(charAt(str, end)) \/ charAt(str, end) = "."
  THEN numberEndMutant(str, end + 1) ELSE end

scanNumberMutant(str, p) ==
  IF ~isDigit(charAt(str, p)) THEN "" ELSE slice(str, p, numberEndMutant(str, p + 1))

scanNumber(str, p) ==
  IF ~isDigit(charAt(str, p)) THEN ""
  ELSE LET end1 == digitEnd(str, p + 1)
           end2 == IF charAt(str, end1) = "." THEN digitEnd(str, end1 + 1) ELSE end1
       IN slice(str, p, end2)

\* new LexError(message, pos)
LexError(message, p) == [name |-> "LexError", pos |-> p, msg |-> message]

\* What calling a method of undefined throws.
TypeError == [name |-> "TypeError"]

\* The inner loop of tokenizeTex: the first position at or after k that holds
\* no whitespace; -1 when the loop runs off the end of the string, where
\* isWhitespace(undefined) throws a TypeError.
RECURSIVE skipWhitespace(_, _)
skipWhitespace(str, k) ==
  IF charAt(str, k) = undefined THEN -1
  ELSE IF isWhitespace(charAt(str, k)) THEN skipWhitespace(str, k + 1)
  ELSE k

\* The lexeme and type one iteration of tokenizeTex's loop finds at k (k holds
\* no whitespace), or the LexError it throws.
scanLexeme(str, k) ==
  LET c == charAt(str, k) IN
  IF isControl(c)
  THEN [ok |-> FALSE,
        error |-> LexError("invalid control sequence encountered "
                           \o "(forgot to escape backslashes (\\begin => \\\\begin)?)", k)]
  ELSE IF ~isAlpha(c) /\ inLexemeToType(c)
  THEN [ok |-> TRUE, lexeme |-> c, type |-> typeOfLexeme(c)]
  ELSE IF c = "\\"
  THEN LET nextChar == charAt(str, k + 1) IN
       IF nextChar = "\\" THEN [ok |-> TRUE, lexeme |-> "\\\\", type |-> "Dblbackslash"]
       ELSE IF nextChar = " " THEN [ok |-> TRUE, lexeme |-> "\\ ", type |-> "Space"]
       ELSE LET command == scanWord(str, k + 1)
                lexeme == "\\" \o command
                type == IF typeOfLexeme(lexeme) = undefined /\ lexeme \in DOMAIN lexemeToSymbol
                        THEN "Symbol" ELSE typeOfLexeme(lexeme)
            IN IF type = undefined
               THEN [ok |-> FALSE,
                     error |-> LexError("unknown command \"" \o lexeme \o "\"", k)]
               ELSE [ok |-> TRUE, lexeme |-> lexeme, type |-> type]
  ELSE IF isDigit(c)
  THEN [ok |-> TRUE, lexeme |-> scanNumber(str, k), type |-> "Number"]
  ELSE IF isAlpha(c)
  THEN LET identifier == scanWord(str, k) IN
       IF inLexemeToType(identifier)
       THEN [ok |-> TRUE, lexeme |-> identifier, type |-> typeOfLexeme(identifier)]
       ELSE LET ch == charAt(identifier, 0) IN
            IF inLexemeToType(ch)
            THEN [ok |-> TRUE, lexeme |-> ch, type |-> typeOfLexeme(ch)]
            ELSE [ok |-> TRUE, lexeme |-> ch, type |-> "Variable"]
  ELSE [ok |-> FALSE,
        error |-> LexError("unrecognized character \"" \o c \o "\"", k)]

(***************************************************************************)
(* The MathJS nodes parseTokens.ts constructs.                             *)
(***************************************************************************)

SymbolNode(name) == [type |-> "SymbolNode", name |-> name]

\* value: a number (written in canonical decimal form) or the lexeme itself.
ConstantNode(value, isNumber) ==
  [type |-> "ConstantNode", value |-> value, isNumber |-> isNumber]

\* OperatorNode(op, fn, args); implicit is false unless set afterwards.
OperatorNode(op, fn, args) ==
  [type |-> "OperatorNode", op |-> op, fn |-> fn, args |-> args, implicit |-> FALSE]

\* FunctionNode(fn, args); fn is kept by its name.
FunctionNode(fn, args) == [type |-> "FunctionNode", fn |-> fn, args |-> args]

IndexNode(dimensions) == [type |-> "IndexNode", dimensions |-> dimensions]

AccessorNode(object, index) ==
  [type |-> "AccessorNode", object |-> object, index |-> index]

AssignmentNode(object, value) ==
  [type |-> "AssignmentNode", object |-> object, value |-> value]

ArrayNode(items) == [type |-> "ArrayNode", items |-> items]

isSymbolNode(node) == node.type = "SymbolNode"

\* children.slice(1)
rest(children) == SubSeq(children, 2, Len(children))

(***************************************************************************)
(* Number(lexeme) for the lexemes scanNumber yields: digits, optionally    *)
(* followed by a point and digits.  The number is written without leading  *)
(* zeros, without trailing zeros of the fraction and without a bare point.  *)
(***************************************************************************)

RECURSIVE stripLeadingZeros(_)
stripLeadingZeros(d) ==
  IF Len(d) > 1 /\ charAt(d, 0) = "0" THEN stripLeadingZeros(slice(d, 1, Len(d))) ELSE d

RECURSIVE stripTrailingZeros(_)
stripTrailingZeros(d) ==
  IF Len(d) > 0 /\ charAt(d, Len(d) - 1) = "0"
  THEN stripTrailingZeros(slice(d, 0, Len(d) - 1)) ELSE d

\* Number.isNaN(Number(lexeme)) is false
isNumeric(lexeme) == lexeme # "" /\ scanNumber(lexeme, 0) = lexeme

\* +lexeme
toNumber(lexeme) ==
  LET intEnd == digitEnd(lexeme, 0)
      int == stripLeadingZeros(slice(lexeme, 0, intEnd))
      frac == stripTrailingZeros(slice(lexeme, intEnd + 1, Len(lexeme)))
  IN IF frac = "" THEN int ELSE int \o "." \o frac

(***************************************************************************)
(* parseTokens.ts                                                          *)
(***************************************************************************)

\* new ParseError(message, token), thrown
ParseError(message, token) ==
  [ok |-> FALSE, name |-> "ParseError", token |-> token, msg |-> message]

\* The exception err, thrown with the cursor at p.
thrown(err, p) ==
  [ok |-> FALSE, name |-> err.name, token |-> err.token, msg |-> err.msg, pos |-> p]

\* A node returned with the cursor at p.
Node(node, p) == [ok |-> TRUE, node |-> node, pos |-> p]

\* A list of nodes returned with the cursor at p.
Nodes(nodes, p) == [ok |-> TRUE, nodes |-> nodes, pos |-> p]

BinaryOperatorTypes ==
  {"Plus", "Star", "Frac", "Slash", "Notequals", "Less", "Lessequal", "Greater",
   "Greaterequal"}

BuiltinFunctionTypes ==
  {"Bar", "Sqrt", "Sin", "Cos", "Tan", "Csc", "Sec", "Cot", "Sinh", "Cosh", "Tanh",
   "Arcsin", "Arccos", "Arctan", "Log", "Ln", "Eigenvalues", "Eigenvectors", "Det",
   "Cross", "Proj", "Comp", "Norm", "Inv"}

\* typeToOperation[type]
operationOf(type) ==
  IF type \in DOMAIN typeToOperation THEN typeToOperation[type]
  ELSE IF type \in DOMAIN typeToOperationExt THEN typeToOperationExt[type]
  ELSE undefined

\* lexemeToSymbol[lexeme] ?? lexeme
operatorSymbol(lexeme) ==
  IF lexeme \in DOMAIN lexemeToSymbol THEN lexemeToSymbol[lexeme] ELSE lexeme

\* The case of createMathJSNode for TokenType.Caret.
createCaretMutant(token, children) ==
  IF Len(children) < 2
  THEN ParseError("Expected two children for ^ operator", token)
  ELSE [ok |-> TRUE, node |-> OperatorNode(token.lexeme, operationOf(token.type), children)]

createCaret(token, children) ==
  IF Len(children) < 2
  THEN ParseError("Expected two children for ^ operator", token)
  ELSE IF isSymbolNode(children[2]) /\ children[2].name = "T"
  THEN [ok |-> TRUE, node |-> FunctionNode("transpose", <<children[1]>>)]
  ELSE [ok |-> TRUE, node |-> OperatorNode(token.lexeme, operationOf(token.type), children)]

\* The case of createMathJSNode for TokenType.Underscore.
createUnderscoreMutant(children) ==
  AccessorNode(children[Len(children)], IndexNode(SubSeq(children, 1, Len(children) - 1)))

createUnderscore(children) == AccessorNode(children[1], IndexNode(rest(children)))

\* The case of createMathJSNode for TokenType.Times.
createTimesMutant(token, children) ==
  OperatorNode(operatorSymbol(token.lexeme), operationOf(token.type), children)

createTimes(token, children) == FunctionNode("cross", children)

\* The case of createMathJSNode for TokenType.Symbol.
createSymbolMutant(token) == SymbolNode(token.lexeme)

createSymbol(token) ==
  SymbolNode(IF token.lexeme \in DOMAIN lexemeToSymbol
             THEN lexemeToSymbol[token.lexeme] ELSE undefined)

\* createMathJSNode(token, children): [ok |-> TRUE, node] or the ParseError.
createMathJSNode(token, children) ==
  LET fn == operationOf(token.type)
      made(node) == [ok |-> TRUE, node |-> node]
  IN
  CASE token.type = "Equals" -> made(OperatorNode("==", fn, children))
    [] token.type = "Times" -> made(createTimes(token, children))
    [] token.type = "Minus" ->
         made(OperatorNode(operatorSymbol(token.lexeme),
                           IF Len(children) = 1 THEN "unaryMinus" ELSE fn, children))
    [] token.type \in BinaryOperatorTypes ->
         made(OperatorNode(operatorSymbol(token.lexeme), fn, children))
    [] token.type = "Caret" -> createCaret(token, children)
    [] token.type = "Underscore" -> made(createUnderscore(children))
    [] token.type \in BuiltinFunctionTypes -> made(FunctionNode(fn, children))
    [] token.type = "Opname" -> made(FunctionNode(children[1].name, rest(children)))
    [] token.type = "Colon" -> made(AssignmentNode(children[1], children[2]))
    [] token.type = "Variable" -> made(SymbolNode(token.lexeme))
    [] token.type = "Number" ->
         made(IF isNumeric(token.lexeme) THEN ConstantNode(toNumber(token.lexeme), TRUE)
              ELSE ConstantNode(token.lexeme, FALSE))
    [] token.type = "Symbol" -> made(createSymbol(token))
    [] token.type = "E" -> made(SymbolNode("e"))
    [] token.type = "True" -> made(SymbolNode("true"))
    [] token.type = "False" -> made(SymbolNode("false"))
    [] token.type = "Undefined" -> made(SymbolNode("undefined"))
    [] token.type = "Matrix" -> made(ArrayNode(children))
    [] token.type = "T" -> made(SymbolNode("T"))
    [] OTHER -> ParseError("unknown token type", token)

StringTokenTypes ==
  {"Variable", "Number", "E", "T", "Eigenvalues", "Eigenvectors", "Cross", "Proj",
   "Norm", "Inv"}

\* The text createMathJSString joins; "" with ok FALSE stands for its throw.
RECURSIVE joinString(_)
joinString(string) ==
  IF string = <<>> THEN [ok |-> TRUE, text |-> ""]
  ELSE LET token == Head(string)
           tail == joinString(Tail(string))
       IN IF token.type \in StringTokenTypes
          THEN IF tail.ok THEN [ok |-> TRUE, text |-> token.lexeme \o tail.text] ELSE tail
          ELSE IF token.type = "Symbol"
          THEN IF tail.ok
               THEN [ok |-> TRUE,
                     text |-> (IF token.lexeme \in DOMAIN lexemeToSymbol
                               THEN lexemeToSymbol[token.lexeme] ELSE undefined) \o tail.text]
               ELSE tail
          ELSE ParseError("unknown token type", token)

createMathJSString(string) ==
  LET joined == joinString(string) IN
  IF joined.ok THEN [ok |-> TRUE, node |-> SymbolNode(joined.text)] ELSE joined

\* Maps each left grouping token to its corresponding right grouping token
rightGroupingMutant ==
  [t \in {"Lparen", "Lbrace", "Left", "Bar"} |->
     CASE t = "Lparen" -> "Rbrace"
       [] t = "Lbrace" -> "Rparen"
       [] t = "Left" -> "Right"
       [] t = "Bar" -> "Bar"]

rightGrouping ==
  [t \in {"Lparen", "Lbrace", "Left", "Bar"} |->
     CASE t = "Lparen" -> "Rparen"
       [] t = "Lbrace" -> "Rbrace"
       [] t = "Left" -> "Right"
       [] t = "Bar" -> "Bar"]

\* Token types that are primaries or denote the start of a primary
primaryTypes ==
  {"Left", "Lparen", "Lbrace", "Bar", "Number", "Variable", "Symbol", "Frac", "Sqrt",
   "Sin", "Cos", "Tan", "Csc", "Sec", "Cot", "Arcsin", "Arccos", "Arctan", "Sinh",
   "Cosh", "Tanh", "Log", "Ln", "Det", "Mathrm", "Mathbf", "E", "Begin", "T", "Opname"}

\* this.tokens[p]
currentToken(toks, p) == toks[p + 1]

\* this.tokens[p - 1]
previousToken(toks, p) == toks[p]

\* match(...types) is not undefined
match(toks, p, types) == currentToken(toks, p).type \in types

\* tryConsume(errMsg, ...tokenTypes): the token consumed and the cursor after it.
tryConsume(toks, p, errMsg, tokenTypes) ==
  IF ~match(toks, p, tokenTypes) THEN thrown(ParseError(errMsg, currentToken(toks, p)), p)
  ELSE [ok |-> TRUE, token |-> currentToken(toks, p), pos |-> p + 1]

ComparisonTypes ==
  {"Equals", "Notequals", "Less", "Lessequal", "Greater", "Greaterequal"}

GroupingStartTypes == {"Left", "Lparen", "Lbrace", "Bar"}

UnaryFuncTypes ==
  {"Sqrt", "Sin", "Cos", "Tan", "Csc", "Sec", "Cot", "Arcsin", "Arccos", "Arctan",
   "Sinh", "Cosh", "Tanh", "Log", "Ln", "Det"}

\* The rest of a method after a call that may throw: the ParseError propagates,
\* otherwise the method goes on.
after(result, remainder) == IF ~result.ok THEN result ELSE remainder

\* The node just made, returned with the cursor at p.
madeAt(made, p) == IF ~made.ok THEN thrown(made, p) ELSE Node(made.node, p)

\* A node made by createMathJSNode, returned with the cursor at p.
makeNode(token, children, p) == madeAt(createMathJSNode(token, children), p)

\* node.isConstantNode && !Number.isNaN(Number(node))
isNumberNode(node) == node.type = "ConstantNode" /\ node.isNumber

\* (leftFactor as any).implicit = implicitMult
setImplicit(node, implicitMult) ==
  IF node.type = "OperatorNode" THEN [node EXCEPT !.implicit = implicitMult]
  ELSE [type |-> node.type, fn |-> node.fn, args |-> node.args, implicit |-> implicitMult]

RECURSIVE nextComparison(_, _)
RECURSIVE nextExpression(_, _)
RECURSIVE expressionLoop(_, _)
RECURSIVE nextTerm(_, _)
RECURSIVE termLoop(_, _, _)
RECURSIVE nextFactor(_, _)
RECURSIVE nextPower(_, _)
RECURSIVE powerLoop(_, _)
RECURSIVE nextSubscript(_, _)
RECURSIVE subscriptLoop(_, _)
RECURSIVE nextPrimary(_, _)
RECURSIVE nextGrouping(_, _)
RECURSIVE groupingCommaLoop(_, _)
RECURSIVE nextUnaryFunc(_, _)
RECURSIVE nextCustomFunc(_, _)
RECURSIVE nextArgument(_, _)
RECURSIVE nextFrac(_, _)
RECURSIVE nextMatrix(_, _)
RECURSIVE matrixLoop(_, _, _, _, _)

\* createMathJSNode(operator, [left, right]) once the right operand is parsed.
binaryNode(operator, left, right) ==
  IF ~right.ok THEN right ELSE makeNode(operator, <<left, right.node>>, right.pos)

\* createMathJSNode(token, [...first, ...children]) once the children are parsed.
applyNode(token, first, children) ==
  IF ~children.ok THEN children ELSE makeNode(token, first \o children.nodes, children.pos)

\* [primary]: the one-element list of a parsed primary.
singleton(primary) ==
  IF ~primary.ok THEN primary ELSE Nodes(<<primary.node>>, primary.pos)

\* [primary] = grouping: the first child of a parsed grouping.
firstOf(grouping) ==
  IF ~grouping.ok THEN grouping ELSE Node(grouping.nodes[1], grouping.pos)

\* leftFactor.implicit = implicitMult on the node just made.
implicitNode(made, implicitMult) ==
  IF ~made.ok THEN made ELSE Node(setImplicit(made.node, implicitMult), made.pos)

\* Parser.nextComparison after `:`: the `=` and the right-hand comparison.
assignmentRest(toks, colon, left, equals) ==
  IF ~equals.ok THEN equals ELSE binaryNode(colon, left, nextComparison(toks, equals.pos))

\* Parser.nextComparison after its left expression.
comparisonRestMutant(toks, leftExpr) ==
  IF ~leftExpr.ok THEN leftExpr
  ELSE IF match(toks, leftExpr.pos, {"Colon"})
  THEN assignmentRest(toks, currentToken(toks, leftExpr.pos), leftExpr.node,
                      tryConsume(toks, leftExpr.pos + 1, "Expected '=' after ':'",
                                 {"Equals"}))
  ELSE IF match(toks, leftExpr.pos, ComparisonTypes)
  THEN binaryNode(currentToken(toks, leftExpr.pos), leftExpr.node,
                  nextExpression(toks, leftExpr.pos + 1))
  ELSE leftExpr

comparisonRest(toks, leftExpr) ==
  IF ~leftExpr.ok THEN leftExpr
  ELSE IF match(toks, leftExpr.pos, {"Colon"})
  THEN IF ~isSymbolNode(leftExpr.node)
       THEN thrown(ParseError("expected variable (SymbolNode) on left hand of assignment",
                              previousToken(toks, leftExpr.pos)), leftExpr.pos)
       ELSE assignmentRest(toks, currentToken(toks, leftExpr.pos), leftExpr.node,
                           tryConsume(toks, leftExpr.pos + 1, "Expected '=' after ':'",
                                      {"Equals"}))
  ELSE IF match(toks, leftExpr.pos, ComparisonTypes)
  THEN binaryNode(currentToken(toks, leftExpr.pos), leftExpr.node,
                  nextExpression(toks, leftExpr.pos + 1))
  ELSE leftExpr

\* Parser.nextComparison
nextComparison(toks, p) == comparisonRest(toks, nextExpression(toks, p))

\* Parser.nextExpression
nextExpression(toks, p) == expressionLoop(toks, nextTerm(toks, p))

\* The while loop of Parser.nextExpression; leftTerm is the term parsed so far
\* with the cursor after it.
expressionLoop(toks, leftTerm) ==
  IF ~leftTerm.ok THEN leftTerm
  ELSE IF ~match(toks, leftTerm.pos, {"Plus", "Minus"}) THEN leftTerm
  ELSE expressionLoop(toks, binaryNode(currentToken(toks, leftTerm.pos), leftTerm.node,
                                       nextTerm(toks, leftTerm.pos + 1)))

\* Parser.nextTerm
nextTerm(toks, p) == termLoop(toks, nextFactor(toks, p), FALSE)

\* The for (;;) loop of Parser.nextTerm; leftFactor is the factor parsed so far
\* with the cursor after it.
termLoop(toks, leftFactor, implicitMult) ==
  IF ~leftFactor.ok THEN leftFactor
  ELSE IF ~match(toks, leftFactor.pos, {"Star", "Times", "Slash"} \cup primaryTypes)
  THEN leftFactor
  ELSE IF isNumberNode(leftFactor.node) /\ currentToken(toks, leftFactor.pos).type = "Number"
  THEN thrown(ParseError("multiplication is not implicit between two different"
                         \o "numbers: expected * or \\cdot",
                         currentToken(toks, leftFactor.pos)), leftFactor.pos)
  ELSE IF match(toks, leftFactor.pos, {"Star", "Times", "Slash"})
  THEN termLoop(toks,
                implicitNode(binaryNode(currentToken(toks, leftFactor.pos), leftFactor.node,
                                        nextFactor(toks, leftFactor.pos + 1)),
                             implicitMult),
                implicitMult)
  ELSE LET starPos == leftFactor.pos IN
       termLoop(toks,
                implicitNode(binaryNode(Token("*", "Star", starPos), leftFactor.node,
                                        nextPower(toks, leftFactor.pos)),
                             TRUE),
                TRUE)

\* Parser.nextFactor
nextFactorMutant(toks, p) ==
  IF match(toks, p, {"Minus"})
  THEN applyNode(currentToken(toks, p), <<>>, singleton(nextPrimary(toks, p + 1)))
  ELSE nextPower(toks, p)

nextFactor(toks, p) ==
  IF match(toks, p, {"Minus"})
  THEN applyNode(currentToken(toks, p), <<>>, singleton(nextPower(toks, p + 1)))
  ELSE nextPower(toks, p)

\* Parser.nextPower
nextPower(toks, p) == powerLoop(toks, nextSubscript(toks, p))

\* The while loop of Parser.nextPower; base is the power parsed so far with the
\* cursor after it.
powerLoopMutant(toks, base) ==
  IF ~base.ok THEN base
  ELSE IF ~match(toks, base.pos, {"Caret"}) THEN base
  ELSE binaryNode(currentToken(toks, base.pos), base.node, nextPower(toks, base.pos + 1))

powerLoop(toks, base) ==
  IF ~base.ok THEN base
  ELSE IF ~match(toks, base.pos, {"Caret"}) THEN base
  ELSE powerLoop(toks, binaryNode(currentToken(toks, base.pos), base.node,
                                  nextPrimary(toks, base.pos + 1)))

\* Parser.nextSubscript
nextSubscript(toks, p) == subscriptLoop(toks, nextPrimary(toks, p))

\* The while loop of Parser.nextSubscript; base is the subscript parsed so far
\* with the cursor after it.
subscriptLoop(toks, base) ==
  IF ~base.ok THEN base
  ELSE IF ~match(toks, base.pos, {"Underscore"}) THEN base
  ELSE subscriptLoop(toks,
         applyNode(currentToken(toks, base.pos), <<base.node>>,
                   IF match(toks, base.pos + 1, GroupingStartTypes)
                   THEN nextGrouping(toks, base.pos + 1)
                   ELSE singleton(nextPrimary(toks, base.pos + 1))))

\* Parser.nextBoolean
nextBoolean(toks, p) ==
  after(tryConsume(toks, p + 1, "expected '{' after \\mathrm", {"Lbrace"}),
  after(tryConsume(toks, p + 2,
                   "expected 'True' or 'False' after '\\mathrm{' "
                   \o "(no other expressions" \o "are supported yet)",
                   {"True", "False"}),
  after(tryConsume(toks, p + 3,
                   "expected '}' after \\mathrm{" \o currentToken(toks, p + 2).lexeme,
                   {"Rbrace"}),
        makeNode(currentToken(toks, p + 2), <<>>, p + 4))))

\* Parser.nextUndefined
nextUndefined(toks, p) ==
  after(tryConsume(toks, p + 1, "expected '{' after \\mathbf", {"Lbrace"}),
  after(tryConsume(toks, p + 2,
                   "expected '?' after '\\mathbf{' "
                   \o "(no other expressions" \o "are supported yet)",
                   {"Undefined"}),
  after(tryConsume(toks, p + 3, "expected '}' after \\mathbf{undefined", {"Rbrace"}),
        makeNode(currentToken(toks, p + 2), <<>>, p + 4))))

\* Parser.nextPrimary when no primary starts at the cursor: the throw, with the
\* cursor left on the token.
expectedPrimaryMutant(toks, p) ==
  thrown(ParseError("expected primary", currentToken(toks, p)), p + 1)

expectedPrimary(toks, p) ==
  thrown(ParseError("expected primary", currentToken(toks, p)), p)

\* Parser.nextPrimary
nextPrimary(toks, p) ==
  LET lookaheadType == currentToken(toks, p).type IN
  IF lookaheadType \notin primaryTypes
  THEN expectedPrimary(toks, p)
  ELSE IF lookaheadType \in GroupingStartTypes
  THEN firstOf(nextGrouping(toks, p))
  ELSE IF lookaheadType \in {"Number", "Variable", "Symbol", "E", "T"}
  THEN makeNode(currentToken(toks, p), <<>>, p + 1)
  ELSE IF lookaheadType \in UnaryFuncTypes THEN nextUnaryFunc(toks, p)
  ELSE IF lookaheadType = "Opname" THEN nextCustomFunc(toks, p)
  ELSE IF lookaheadType = "Frac" THEN nextFrac(toks, p)
  ELSE IF lookaheadType = "Mathrm" THEN nextBoolean(toks, p)
  ELSE IF lookaheadType = "Mathbf" THEN nextUndefined(toks, p)
  ELSE IF lookaheadType = "Begin" THEN nextMatrix(toks, p)
  ELSE thrown(ParseError("unknown token encountered during parsing",
                         currentToken(toks, p)), p + 1)

\* Parser.tryConsumeRightGrouping
tryConsumeRightGrouping(toks, p, leftGroupingToken) ==
  LET rightGroupingType == rightGrouping[leftGroupingToken.type]
      expectedLexemes == CASE rightGroupingType = "Rparen" -> "')'"
                           [] rightGroupingType = "Rbrace" -> "'}'"
                           [] rightGroupingType = "Bar" -> "'|'"
                           [] rightGroupingType = "Right" -> "'\\right'"
      errMsg == "expected " \o expectedLexemes \o " to match corresponding '"
                \o leftGroupingToken.lexeme \o "'"
  IN tryConsume(toks, p, errMsg, {rightGroupingType})

\* A grouping with bars also applies a function: the node of the grouping.
barGroupingMutant(leftGrouping, grouping) == grouping

barGrouping(leftGrouping, grouping) ==
  IF leftGrouping.type = "Bar"
  THEN createMathJSNode(leftGrouping, <<grouping>>).node
  ELSE grouping

\* children.push(item) once the item is parsed.
pushNode(children, item) ==
  IF ~item.ok THEN item ELSE Nodes(Append(children.nodes, item.node), item.pos)

\* The while (this.match(TokenType.Comma)) loop of Parser.nextGrouping; children
\* are the children parsed so far with the cursor after them.
groupingCommaLoop(toks, children) ==
  IF ~children.ok THEN children
  ELSE IF ~match(toks, children.pos, {"Comma"}) THEN children
  ELSE groupingCommaLoop(toks, pushNode(children, nextComparison(toks, children.pos + 1)))

\* Parser.nextGrouping after its children: \right when \left was given, then
\* the closing token.
groupingClose(toks, leftRight, leftGrouping, children) ==
  IF ~children.ok THEN children
  ELSE IF leftRight
  THEN after(tryConsume(toks, children.pos,
                        "expected \\right to match corresponding \\left after expression",
                        {"Right"}),
       after(tryConsumeRightGrouping(toks, children.pos + 1, leftGrouping),
             Nodes(children.nodes, children.pos + 2)))
  ELSE after(tryConsumeRightGrouping(toks, children.pos, leftGrouping),
             Nodes(children.nodes, children.pos + 1))

\* Parser.nextGrouping after its first expression: the comma-separated children
\* of a parenthetical grouping.
groupingChildrenMutant(toks, leftGrouping, grouping) ==
  groupingCommaLoop(toks, grouping)

groupingChildren(toks, leftGrouping, grouping) ==
  IF leftGrouping.type \in {"Lparen", "Lbrace"}
  THEN groupingCommaLoop(toks, grouping)
  ELSE grouping

\* Parser.nextGrouping after the opening token.
groupingRest(toks, leftRight, leftGrouping, content) ==
  IF ~content.ok THEN content
  ELSE groupingClose(toks, leftRight, leftGrouping,
         groupingChildren(toks, leftGrouping,
           Nodes(<<barGrouping(leftGrouping, content.node)>>, content.pos)))

\* Parser.nextGrouping: the children and the cursor after the closing token.
nextGrouping(toks, p) ==
  LET leftRight == match(toks, p, {"Left"})
      afterLeft == IF leftRight THEN p + 1 ELSE p
  IN after(tryConsume(toks, afterLeft, "expected '(', '|', '{'",
                      {"Lparen", "Bar", "Lbrace"}),
           groupingRest(toks, leftRight, currentToken(toks, afterLeft),
                        nextExpression(toks, afterLeft + 1)))

\* Parser.nextUnaryFunc
nextUnaryFunc(toks, p) ==
  LET func == currentToken(toks, p) IN
  applyNode(func, <<>>, nextArgument(toks, p + 1))

NameStartTypes ==
  {"Variable", "Symbol", "E", "T", "Eigenvalues", "Eigenvectors", "Cross", "Proj",
   "Norm", "Inv"}

\* The token type whose enum value is 0: match returns the matched type, so a
\* condition `this.match(...)` is false when the type matched is this one.
FalsyTokenType == "Number"

\* while (this.match(...types)): the matched type, taken as a condition.
matchTruthy(toks, p, types) ==
  match(toks, p, types) /\ currentToken(toks, p).type # FalsyTokenType

\* The while loop of Parser.nextString: the tokens of the name and the cursor after them.
RECURSIVE stringLoop(_, _, _)
stringLoop(toks, p, string) ==
  IF ~matchTruthy(toks, p, NameStartTypes \cup {"Number"})
  THEN [tokens |-> string, pos |-> p]
  ELSE stringLoop(toks, p + 1, Append(string, currentToken(toks, p)))

\* Parser.nextString
nextString(toks, p) ==
  LET string == stringLoop(toks, p + 1, <<currentToken(toks, p)>>) IN
  after(tryConsume(toks, p, "expected a letter after \\operatorname{", NameStartTypes),
        madeAt(createMathJSString(string.tokens), string.pos))

\* Parser.nextCustomFunc after the operator name.
customFuncRest(toks, opname, customFunc) ==
  IF ~customFunc.ok THEN customFunc
  ELSE after(tryConsume(toks, customFunc.pos, "expected '}' after operator name",
                        {"Rbrace"}),
             applyNode(opname, <<customFunc.node>>, nextArgument(toks, customFunc.pos + 1)))

\* Parser.nextCustomFunc
nextCustomFunc(toks, p) ==
  LET opname == currentToken(toks, p) IN
  after(tryConsume(toks, p + 1, "expected '{' after \\operatorname", {"Lbrace"}),
        customFuncRest(toks, opname, nextString(toks, p + 2)))

\* Parser.nextArgument
nextArgumentMutant(toks, p) ==
  IF match(toks, p, GroupingStartTypes) THEN nextGrouping(toks, p)
  ELSE singleton(nextPower(toks, p))

nextArgument(toks, p) ==
  IF match(toks, p, GroupingStartTypes) THEN nextGrouping(toks, p)
  ELSE singleton(nextPrimary(toks, p))

\* The closing brace of the denominator of Parser.nextFrac.
fracClose(toks, denominator) ==
  IF ~denominator.ok THEN denominator
  ELSE after(tryConsume(toks, denominator.pos,
                        "expected '}' for the denominator in \\frac", {"Rbrace"}),
             Node(denominator.node, denominator.pos + 1))

\* The denominator of Parser.nextFrac, in braces or bare.
fracDenominatorMutant(toks, p) ==
  after(tryConsume(toks, p, "expected '{' for the denominator in \\frac", {"Lbrace"}),
        fracClose(toks, nextComparison(toks, p + 1)))

fracDenominator(toks, p) ==
  IF match(toks, p, {"Lbrace"})
  THEN fracClose(toks, nextComparison(toks, p + 1))
  ELSE nextComparison(toks, p)

\* Parser.nextFrac after the numerator.
fracRest(toks, frac, numerator) ==
  IF ~numerator.ok THEN numerator
  ELSE after(tryConsume(toks, numerator.pos, "expected '}' for the numerator in \\frac",
                        {"Rbrace"}),
             binaryNode(frac, numerator.node, fracDenominator(toks, numerator.pos + 1)))

\* Parser.nextFrac
nextFrac(toks, p) ==
  LET frac == currentToken(toks, p) IN
  after(tryConsume(toks, p + 1, "expected '{' for the numerator in \\frac", {"Lbrace"}),
        fracRest(toks, frac, nextComparison(toks, p + 2)))

\* rows.push(...) of a closed row: the bare element of a one-element row, the
\* row node otherwise.
pushRowMutant(rows, fullRow, matrixToken) ==
  Append(rows, createMathJSNode(matrixToken, fullRow).node)

pushRow(rows, fullRow, matrixToken) ==
  IF Len(fullRow) = 1 THEN Append(rows, fullRow[1])
  ELSE Append(rows, createMathJSNode(matrixToken, fullRow).node)

\* const element = this.nextComparison() of Parser.nextMatrix.
matrixElementMutant(toks, p) ==
  IF match(toks, p, {"Amp", "Dblbackslash", "End"}) THEN Node(NoNode, p)
  ELSE nextComparison(toks, p)

matrixElement(toks, p) == nextComparison(toks, p)

\* The for (;;) loop of Parser.nextMatrix: the rows and the cursor after \end;
\* element is the element just parsed with the cursor after it.
matrixLoop(toks, element, row, rows, matrixToken) ==
  IF ~element.ok THEN element
  ELSE IF match(toks, element.pos, {"Amp"})
  THEN matrixLoop(toks, matrixElement(toks, element.pos + 1), Append(row, element.node),
                  rows, matrixToken)
  ELSE IF match(toks, element.pos, {"Dblbackslash", "End"})
  THEN LET delimiter == currentToken(toks, element.pos)
           newRows == pushRow(rows, Append(row, element.node), matrixToken)
       IN IF delimiter.type = "End" THEN Nodes(newRows, element.pos + 1)
          ELSE matrixLoop(toks, matrixElement(toks, element.pos + 1), <<>>, newRows,
                          matrixToken)
  ELSE IF match(toks, element.pos, {"Eof"})
  THEN thrown(ParseError("unexpected EOF encountered while parsing matrix",
                         currentToken(toks, element.pos)), element.pos)
  ELSE thrown(ParseError("unexpected delimiter while parsing matrix",
                         currentToken(toks, element.pos)), element.pos)

\* Parser.nextMatrix after the rows: {matrix} after \end.
matrixEnd(toks, matrixToken, rows) ==
  IF ~rows.ok THEN rows
  ELSE
  after(tryConsume(toks, rows.pos, "expected '{' after \\end", {"Lbrace"}),
  after(tryConsume(toks, rows.pos + 1,
                   "expected 'matrix' after '\\end{' (no other environnments"
                   \o "are supported yet)", {"Matrix"}),
  after(tryConsume(toks, rows.pos + 2, "expected '}' after \\end{matrix", {"Rbrace"}),
        makeNode(matrixToken, rows.nodes, rows.pos + 3))))

\* Parser.nextMatrix
nextMatrix(toks, p) ==
  after(tryConsume(toks, p + 1, "expected '{' after \\begin", {"Lbrace"}),
  after(tryConsume(toks, p + 2,
                   "expected 'matrix' after '\\begin{' " \o "(no other environnments"
                   \o "are supported yet)", {"Matrix"}),
  after(tryConsume(toks, p + 3, "expected '}' after \\begin{matrix", {"Rbrace"}),
        matrixEnd(toks, currentToken(toks, p + 2),
                  matrixLoop(toks, matrixElement(toks, p + 4), <<>>, <<>>,
                             currentToken(toks, p + 2))))))

\* parseTokens(tokens)
parseTokens(toks) == nextComparison(toks, 0)

(***************************************************************************)
(* The state machine: tokenizeTex runs one iteration of its loop per step, *)
(* parseTokens runs on the finished token list.                            *)
(***************************************************************************)

\* tokens.push(new Token(lexeme, type, i)) unless the lexeme is an escaped space.
pushTokenMutant(toks, scanned, k) ==
  Append(toks, Token(scanned.lexeme, scanned.type, k))

pushToken(toks, scanned, k) ==
  IF scanned.type # "Space" THEN Append(toks, Token(scanned.lexeme, scanned.type, k))
  ELSE toks

\* i += lexeme.length
advanceMutant(k, scanned) ==
  IF scanned.type = "Space" THEN k ELSE k + Len(scanned.lexeme)

advance(k, scanned) == k + Len(scanned.lexeme)

\* One iteration of the while (i < length) loop of tokenizeTex.
LexIteration ==
  /\ phase = "lex"
  /\ i < Len(texStr)
  /\ LET k == skipWhitespace(texStr, i) IN
     IF k = -1
     THEN /\ phase' = "TypeError"
          /\ error' = TypeError
          /\ UNCHANGED <<i, tokens>>
     ELSE LET scanned == scanLexeme(texStr, k) IN
          IF ~scanned.ok
          THEN /\ phase' = "LexError"
               /\ error' = scanned.error
               /\ i' = k
               /\ UNCHANGED tokens
          ELSE /\ tokens' = pushToken(tokens, scanned, k)
               /\ i' = advance(k, scanned)
               /\ UNCHANGED <<phase, error>>
  /\ UNCHANGED <<texStr, pos, root>>

\* The end of tokenizeTex: the loop is left and the EOF token pushed.
LexEofMutant ==
  /\ phase = "lex"
  /\ i >= Len(texStr)
  /\ tokens' = Append(tokens, Token("EOF", "Eof", Len(tokens)))
  /\ phase' = "lexed"
  /\ UNCHANGED <<texStr, i, error, pos, root>>

LexEof ==
  /\ phase = "lex"
  /\ i >= Len(texStr)
  /\ tokens' = Append(tokens, Token("EOF", "Eof", i))
  /\ phase' = "lexed"
  /\ UNCHANGED <<texStr, i, error, pos, root>>

\* parseTokens returns the root node, or throws.
parseReturns(parsed) ==
  IF parsed.ok
  THEN /\ phase' = "parsed"
       /\ root' = parsed.node
       /\ pos' = parsed.pos
       /\ UNCHANGED error
  ELSE /\ phase' = "ParseError"
       /\ error' = [name |-> parsed.name, token |-> parsed.token, msg |-> parsed.msg]
       /\ pos' = parsed.pos
       /\ UNCHANGED root

\* parseTokens(tokens)
Parse ==
  /\ phase = "lexed"
  /\ parseReturns(parseTokens(tokens))
  /\ UNCHANGED <<texStr, i, tokens>>

(***************************************************************************)
(* Inputs.                                                                 *)
(***************************************************************************)

\* The strings over the characters chars of length at most n.
RECURSIVE StringsOver(_, _)
StringsOver(chars, n) ==
  IF n = 0 THEN {""}
  ELSE LET shorter == StringsOver(chars, n - 1) IN
       shorter \cup {str \o c : str \in {t \in shorter : Len(t) = n - 1}, c \in chars}

\* The sequences over the set A of length at most n.
RECURSIVE SeqsOver(_, _)
SeqsOver(A, n) ==
  IF n = 0 THEN {<<>>}
  ELSE LET shorter == SeqsOver(A, n - 1) IN
       shorter \cup {Append(q, a) : q \in {t \in shorter : Len(t) = n - 1}, a \in A}

\* The token list tokenizeTex returns for the lexemes written with one space
\* between them: each lexeme with its type and position, then the EOF token.
RECURSIVE tokensFrom(_, _)
tokensFrom(lexemes, at) ==
  IF lexemes = <<>> THEN <<Token("EOF", "Eof", IF at = 0 THEN 0 ELSE at - 1)>>
  ELSE LET l == Head(lexemes) IN
       <<Token(l.lexeme, l.type, at)>> \o tokensFrom(Tail(lexemes), at + Len(l.lexeme) + 1)

\* tokenizeTex(str) is called.
InitString(strings) ==
  /\ texStr \in strings
  /\ i = 0
  /\ tokens = <<>>
  /\ phase = "lex"
  /\ error = NoError
  /\ pos = 0
  /\ root = NoNode

\* parseTokens is called with a token list.
InitTokens(lexemes, n) ==
  /\ texStr = NoInput
  /\ i = 0
  /\ tokens \in {tokensFrom(q, 0) : q \in SeqsOver(lexemes, n)}
  /\ phase = "lexed"
  /\ error = NoError
  /\ pos = 0
  /\ root = NoNode

Lexeme(lexeme, type) == [lexeme |-> lexeme, type |-> type]

\* The lexemes of groupings around a variable.
MaxGroupTokens == 5
GroupLexemes ==
  {Lexeme("x", "Variable"), Lexeme("(", "Lparen"), Lexeme(")", "Rparen"),
   Lexeme("{", "Lbrace"), Lexeme("}", "Rbrace"), Lexeme("|", "Bar"),
   Lexeme("\\left", "Left"), Lexeme("\\right", "Right")}

InitGroup == InitTokens(GroupLexemes, MaxGroupTokens)

NextParse == Parse

\* parseTokens on every list of at most MaxGroupTokens grouping tokens.
SpecGroup == InitGroup /\ [][NextParse]_vars

\* The lexemes of a term of numbers and a variable.
MaxTermTokens == 4
TermLexemes ==
  {Lexeme("x", "Variable"), Lexeme("5", "Number"), Lexeme("-", "Minus"),
   Lexeme("^", "Caret"), Lexeme("(", "Lparen"), Lexeme(")", "Rparen")}

InitTerm == InitTokens(TermLexemes, MaxTermTokens)

\* parseTokens on every list of at most MaxTermTokens tokens of a term.
SpecTerm == InitTerm /\ [][NextParse]_vars

\* The lexemes of subscripts and powers.
MaxSubTokens == 5
SubLexemes ==
  {Lexeme("a", "Variable"), Lexeme("b", "Variable"), Lexeme("T", "T"),
   Lexeme("^", "Caret"), Lexeme("_", "Underscore"), Lexeme("{", "Lbrace"),
   Lexeme("}", "Rbrace")}

InitSub == InitTokens(SubLexemes, MaxSubTokens)

\* parseTokens on every list of at most MaxSubTokens tokens of subscripts and powers.
SpecSub == InitSub /\ [][NextParse]_vars

Next == LexIteration \/ LexEof \/ Parse

NextLex == LexIteration \/ LexEof

\* The characters of subscripted and added variables.
MaxTexLen == 6
TexChars == {"a", "b", "+", "_", "{", "}"}

Init == InitString(StringsOver(TexChars, MaxTexLen))

\* parseTex(texStr) = parseTokens(tokenizeTex(texStr)) on every string of at
\* most MaxTexLen characters of TexChars.
Spec == Init /\ [][Next]_vars

\* Letters (x no lexeme, e a single-letter lexeme, i n v spelling the keyword
\* inv), a space and an operator.
MaxLexLen == 4
LexChars == {"x", "e", "i", "n", "v", " ", "+"}

InitLex == InitString(StringsOver(LexChars, MaxLexLen) \cup ObjectPrototypeKeys)

\* tokenizeTex on every string of at most MaxLexLen characters of LexChars and
\* on the property names of Object.prototype.
SpecLex == InitLex /\ [][NextLex]_vars

\* The concatenation of the strings of a list.
RECURSIVE concat(_)
concat(words) == IF words = <<>> THEN "" ELSE Head(words) \o concat(Tail(words))

\* tokenizeTex is called on a string written with at most n of the words.
InitWords(words, n) == InitString({concat(q) : q \in SeqsOver(words, n)})

\* Symbol commands, a variable, an operator and the parts of a custom function
\* call.
MaxSymWords == 4
SymWords == {"\\alpha", "\\theta", "x", "+", "\\operatorname{", "}(x)"}

InitSym == InitWords(SymWords, MaxSymWords)

\* parseTex on every string of at most MaxSymWords words of SymWords.
SpecSym == InitSym /\ [][Next]_vars

\* The elements and delimiters between \begin{bmatrix} and \end{bmatrix}.
MaxMatrixBody == 7
MatrixLexemes ==
  {Lexeme("x", "Variable"), Lexeme("1", "Number"), Lexeme("&", "Amp"),
   Lexeme("\\\\", "Dblbackslash")}

MatrixHeader ==
  <<Lexeme("\\begin", "Begin"), Lexeme("{", "Lbrace"), Lexeme("bmatrix", "Matrix"),
    Lexeme("}", "Rbrace")>>

MatrixFooter ==
  <<Lexeme("\\end", "End"), Lexeme("{", "Lbrace"), Lexeme("bmatrix", "Matrix"),
    Lexeme("}", "Rbrace")>>

\* parseTokens is called with the tokens of \begin{bmatrix} body \end{bmatrix}.
InitMatrix ==
  /\ texStr = NoInput
  /\ i = 0
  /\ tokens \in {tokensFrom(MatrixHeader \o body \o MatrixFooter, 0) :
                   body \in SeqsOver(MatrixLexemes, MaxMatrixBody)}
  /\ phase = "lexed"
  /\ error = NoError
  /\ pos = 0
  /\ root = NoNode

\* parseTokens on every matrix environment whose body has at most
\* MaxMatrixBody tokens.
SpecMatrix == InitMatrix /\ [][NextParse]_vars

\* The lexemes of fractions of variables.
MaxFracTokens == 7
FracLexemes ==
  {Lexeme("\\frac", "Frac"), Lexeme("{", "Lbrace"), Lexeme("}", "Rbrace"),
   Lexeme("a", "Variable"), Lexeme("b", "Variable")}

InitFrac == InitTokens(FracLexemes, MaxFracTokens)

\* parseTokens on every list of at most MaxFracTokens tokens of fractions.
SpecFrac == InitFrac /\ [][NextParse]_vars

\* The lexemes of products and quotients of a number and a variable.
MaxProductTokens == 5
ProductLexemes ==
  {Lexeme("2", "Number"), Lexeme("x", "Variable"), Lexeme("*", "Star"),
   Lexeme("\\cdot", "Star"), Lexeme("\\times", "Times"), Lexeme("/", "Slash")}

InitProduct == InitTokens(ProductLexemes, MaxProductTokens)

\* parseTokens on every list of at most MaxProductTokens tokens of products.
SpecProduct == InitProduct /\ [][NextParse]_vars

\* The custom functions the README lists.
ReadmeFunctions ==
  {"eigenvectors", "eigenvalues", "cross", "proj", "comp", "norm", "inv"}

\* Function names: at most MaxNameWords of the README's names, a letter and a
\* digit, written one after the other.
MaxNameWords == 2
NameWords == ReadmeFunctions \cup {"f", "1"}

\* The arguments of a custom function and the argument lists they parse to.
CustomArgs ==
  [arg \in {"x", "(x)", "{x}", "(x,y)"} |->
     IF arg = "(x,y)" THEN <<SymbolNode("x"), SymbolNode("y")>>
     ELSE <<SymbolNode("x")>>]

\* \operatorname{name} followed by the argument
CustomCall(name, arg) == "\\operatorname{" \o name \o "}" \o arg

\* parseTex is called on a custom function call.
InitCustom ==
  InitString({CustomCall(concat(q), arg) :
                q \in SeqsOver(NameWords, MaxNameWords), arg \in DOMAIN CustomArgs})

\* parseTex on every call \operatorname{name}arg of those names and arguments.
SpecCustom == InitCustom /\ [][Next]_vars

\* The functions with custom bases of the README: \log with a subscript,
\* \sqrt with an index in brackets.
LogBases == {"_2", "_b", "_{b}"}
RootIndices == {"[3]", "[n]"}
BaseArgs == {"{x}", "(x)", "x", "{8}", "{x+1}", "\\left(x\\right)"}

\* parseTex is called on \log or \sqrt, plain or with a base, and an argument.
InitBase ==
  InitString({f \o arg : f \in {"\\log", "\\sqrt"}, arg \in BaseArgs}
             \cup {"\\log" \o b \o arg : b \in LogBases, arg \in BaseArgs}
             \cup {"\\sqrt" \o r \o arg : r \in RootIndices, arg \in BaseArgs})

\* parseTex on every such call.
SpecBase == InitBase /\ [][Next]_vars

\* `${n}`: a number written in decimal.
RECURSIVE decimal(_)
decimal(n) ==
  LET digit == <<"0", "1", "2", "3", "4", "5", "6", "7", "8", "9">> IN
  IF n < 10 THEN digit[n + 1] ELSE decimal(n \div 10) \o digit[(n % 10) + 1]

\* The message of a thrown LexError or ParseError, as its constructor writes it.
messageOf(err) ==
  IF err.name = "LexError" THEN "at " \o decimal(err.pos) \o ": " \o err.msg
  ELSE err.token.lexeme \o " at " \o decimal(err.token.pos) \o ": " \o err.msg

\* A variable, a backslash, a character no lexeme starts with, a character
\* outside ' '..'~', a space, an operator and an opening parenthesis.
MaxErrLen == 4
ErrChars == {"x", "\\", "!", "é", " ", "+", "("}

InitErr == InitString(StringsOver(ErrChars, MaxErrLen))

\* parseTex on every string of at most MaxErrLen characters of ErrChars.
SpecErr == InitErr /\ [][Next]_vars

\* The lexemes of the left-hand and of the right-hand side of an assignment.
MaxSideTokens == 3
LeftLexemes ==
  {Lexeme("a", "Variable"), Lexeme("2", "Number"), Lexeme("(", "Lparen"),
   Lexeme(")", "Rparen"), Lexeme("\\sin", "Sin")}
AssignmentOperator == <<Lexeme(":", "Colon"), Lexeme("=", "Equals")>>

\* The right-hand side is written with variables, = and :=.
RightWords ==
  {<<Lexeme("a", "Variable")>>, <<Lexeme("b", "Variable")>>,
   <<Lexeme("=", "Equals")>>, AssignmentOperator}

\* The lists of a list, one after the other.
RECURSIVE flatten(_)
flatten(lists) == IF lists = <<>> THEN <<>> ELSE Head(lists) \o flatten(Tail(lists))

\* parseTokens is called with the tokens of: left := right.
InitAssign ==
  /\ texStr = NoInput
  /\ i = 0
  /\ tokens \in {tokensFrom(left \o AssignmentOperator \o right, 0) :
                   left \in SeqsOver(LeftLexemes, MaxSideTokens),
                   right \in {flatten(q) : q \in SeqsOver(RightWords, MaxSideTokens)}}
  /\ phase = "lexed"
  /\ error = NoError
  /\ pos = 0
  /\ root = NoNode

\* parseTokens on every stream left := right whose left side has at most
\* MaxSideTokens tokens and whose right side has at most MaxSideTokens words.
SpecAssign == InitAssign /\ [][NextParse]_vars

\* The lexemes of a comparison of sums of variables, and the groupings around it.
MaxInnerTokens == 4
InnerLexemes ==
  {Lexeme("a", "Variable"), Lexeme("b", "Variable"), Lexeme("=", "Equals"),
   Lexeme("+", "Plus")}
Wrappings ==
  {<<<<>>, <<>>>>,
   <<<<Lexeme("(", "Lparen")>>, <<Lexeme(")", "Rparen")>>>>,
   <<<<Lexeme("{", "Lbrace")>>, <<Lexeme("}", "Rbrace")>>>>}

\* parseTokens is called with the tokens of: C, ( C ) or { C }.
InitWrapped ==
  /\ texStr = NoInput
  /\ i = 0
  /\ tokens \in {tokensFrom(w[1] \o inner \o w[2], 0) :
                   w \in Wrappings, inner \in SeqsOver(InnerLexemes, MaxInnerTokens)}
  /\ phase = "lexed"
  /\ error = NoError
  /\ pos = 0
  /\ root = NoNode

\* parseTokens on every C, ( C ) and { C } whose C has at most MaxInnerTokens
\* tokens.
SpecWrapped == InitWrapped /\ [][NextParse]_vars

\* Chains of operands and operators: an operand is a variable or a negated
\* variable; an operator is one of the infix operators or none (the
\* adjacency of two operands).
MaxOperators == 2
OperandWords ==
  {<<Lexeme("a", "Variable")>>, <<Lexeme("b", "Variable")>>, <<Lexeme("c", "Variable")>>,
   <<Lexeme("-", "Minus"), Lexeme("a", "Variable")>>}
OperatorWords ==
  {<<Lexeme("=", "Equals")>>, <<Lexeme("+", "Plus")>>, <<Lexeme("-", "Minus")>>,
   <<Lexeme("*", "Star")>>, <<Lexeme("\\times", "Times")>>, <<Lexeme("/", "Slash")>>,
   <<Lexeme("^", "Caret")>>, <<Lexeme("_", "Underscore")>>, <<>>}

\* The chain of the operands with the operators between them.
RECURSIVE interleave(_, _)
interleave(operands, operators) ==
  IF operators = <<>> THEN Head(operands)
  ELSE Head(operands) \o Head(operators) \o interleave(Tail(operands), Tail(operators))

\* parseTokens is called with the tokens of a chain.
InitChain ==
  /\ texStr = NoInput
  /\ i = 0
  /\ \E n \in 0..MaxOperators :
       \E operands \in [1..(n + 1) -> OperandWords], operators \in [1..n -> OperatorWords] :
         tokens = tokensFrom(interleave(operands, operators), 0)
  /\ phase = "lexed"
  /\ error = NoError
  /\ pos = 0
  /\ root = NoNode

\* parseTokens on every chain of at most MaxOperators operators.
SpecChain == InitChain /\ [][NextParse]_vars

\* Digits, the decimal point and a variable.
MaxNumberLen == 5
NumberChars == {"1", "2", "3", ".", "x"}

InitNumber == InitString(StringsOver(NumberChars, MaxNumberLen))

\* tokenizeTex on every string of at most MaxNumberLen characters of NumberChars.
SpecNumber == InitNumber /\ [][NextLex]_vars

\* A command, a variable, a space, an escaped space, a number, an operator and
\* a double backslash.
MaxPosWords == 4
PosWords == {"\\sin", "x", " ", "\\ ", "1.5", "+", "\\\\"}

InitPos == InitWords(PosWords, MaxPosWords)

\* tokenizeTex on every string of at most MaxPosWords words of PosWords.
SpecPos == InitPos /\ [][NextLex]_vars

\* A variable, parentheses, a fraction, the delimiters of a matrix, a function
\* and the assignment operator.
MaxCursorWords == 4
CursorWords ==
  {"x", "(", ")", "\\frac{x}", "\\begin{bmatrix}", "\\end{bmatrix}", "\\sin", ":="}

InitCursor == InitWords(CursorWords, MaxCursorWords)

\* parseTex on every string of at most MaxCursorWords words of CursorWords.
SpecCursor == InitCursor /\ [][Next]_vars

\* A variable, an operator, a function, a grouping, a space and an escaped
\* space.
MaxRunWords == 3
RunWords == {"x", "+", "\\sin", "(x)", " ", "\\ "}

InitRun == InitWords(RunWords, MaxRunWords)

\* parseTex on every string of at most MaxRunWords words of RunWords; the loop
\* of tokenizeTex runs its next iteration whenever it has one.
SpecRun == InitRun /\ [][Next]_vars /\ WF_vars(NextLex)

\* Comma-separated groupings: what stands before the grouping, its delimiters
\* and its items.
MaxItems == 3
ItemLexemes == {Lexeme("x", "Variable"), Lexeme("y", "Variable"), Lexeme("1", "Number")}
GroupingHeads ==
  {<<>>,
   <<Lexeme("\\sin", "Sin")>>,
   <<Lexeme("\\operatorname", "Opname"), Lexeme("{", "Lbrace"), Lexeme("f", "Variable"),
     Lexeme("}", "Rbrace")>>,
   <<Lexeme("a", "Variable"), Lexeme("_", "Underscore")>>,
   <<Lexeme("a", "Variable"), Lexeme("^", "Caret")>>}
GroupingDelimiters ==
  {<<<<Lexeme("(", "Lparen")>>, <<Lexeme(")", "Rparen")>>>>,
   <<<<Lexeme("{", "Lbrace")>>, <<Lexeme("}", "Rbrace")>>>>,
   <<<<Lexeme("|", "Bar")>>, <<Lexeme("|", "Bar")>>>>,
   <<<<Lexeme("\\left", "Left"), Lexeme("(", "Lparen")>>,
     <<Lexeme("\\right", "Right"), Lexeme(")", "Rparen")>>>>,
   <<<<Lexeme("\\left", "Left"), Lexeme("|", "Bar")>>,
     <<Lexeme("\\right", "Right"), Lexeme("|", "Bar")>>>>}

\* The items with a comma between them.
RECURSIVE commaSeparated(_)
commaSeparated(items) ==
  IF Len(items) = 1 THEN items
  ELSE <<Head(items), Lexeme(",", "Comma")>> \o commaSeparated(Tail(items))

\* parseTokens is called with the tokens of a grouping of comma-separated
\* items, alone or after a function, a subscript or a caret.
InitComma ==
  /\ texStr = NoInput
  /\ i = 0
  /\ \E head \in GroupingHeads, delimiters \in GroupingDelimiters, n \in 1..MaxItems :
       \E items \in [1..n -> ItemLexemes] :
         tokens = tokensFrom(head \o delimiters[1] \o commaSeparated(items)
                             \o delimiters[2], 0)
  /\ phase = "lexed"
  /\ error = NoError
  /\ pos = 0
  /\ root = NoNode

\* parseTokens on every such grouping of at most MaxItems items.
SpecComma == InitComma /\ [][NextParse]_vars

\* The lexemes of matrix cells, and two tokens that are neither an element
\* nor a delimiter of a matrix.
MaxCellTokens == 4
CellLexemes ==
  MatrixLexemes \cup {Lexeme(")", "Rparen"), Lexeme(",", "Comma")}
MatrixEndings == {MatrixFooter, <<>>}

\* parseTokens is called with the tokens of \begin{bmatrix} body, with and
\* without \end{bmatrix} after it.
InitCells ==
  /\ texStr = NoInput
  /\ i = 0
  /\ \E n \in 0..MaxCellTokens, ending \in MatrixEndings :
       \E body \in [1..n -> CellLexemes] :
         tokens = tokensFrom(MatrixHeader \o body \o ending, 0)
  /\ phase = "lexed"
  /\ error = NoError
  /\ pos = 0
  /\ root = NoNode

\* parseTokens on every such matrix whose body has at most MaxCellTokens tokens.
SpecCells == InitCells /\ [][NextParse]_vars

\* A function, a custom function or a fraction with its numerator, and the
\* tokens written after it without braces.
MaxOperandTokens == 4
OperandHeads ==
  {<<Lexeme("\\sin", "Sin")>>,
   <<Lexeme("\\operatorname", "Opname"), Lexeme("{", "Lbrace"), Lexeme("f", "Variable"),
     Lexeme("}", "Rbrace")>>,
   <<Lexeme("\\frac", "Frac"), Lexeme("{", "Lbrace"), Lexeme("a", "Variable"),
     Lexeme("}", "Rbrace")>>}
OperandLexemes ==
  {Lexeme("x", "Variable"), Lexeme("2", "Number"), Lexeme("+", "Plus"),
   Lexeme("*", "Star"), Lexeme("^", "Caret"), Lexeme("=", "Equals")}

\* parseTokens is called with the tokens of \sin, \operatorname{f} or \frac{a}
\* and what is written after it.
InitOperand ==
  /\ texStr = NoInput
  /\ i = 0
  /\ \E head \in OperandHeads, n \in 0..MaxOperandTokens :
       \E following \in [1..n -> OperandLexemes] :
         tokens = tokensFrom(head \o following, 0)
  /\ phase = "lexed"
  /\ error = NoError
  /\ pos = 0
  /\ root = NoNode

\* parseTokens on every such input of at most MaxOperandTokens tokens after
\* the head.
SpecOperand == InitOperand /\ [][NextParse]_vars

(***************************************************************************)
(* Claims.                                                                 *)
(***************************************************************************)

\* C1: parse consumes the entire token stream: whenever parseTokens returns a
\* tree, the cursor rests on the end-of-input token; a stream with tokens left
\* over after a complete comparison is never accepted.
C1_ParseConsumesEntireStream ==
  phase = "parsed" => currentToken(tokens, pos).type = "Eof"

\* C2: tokenize is total: on every input string, tokenizeTex either returns a
\* token sequence or fails with a LexError; no other kind of failure occurs.
C2_TokenizeTotal == phase \in {"lex", "lexed", "LexError"}

\* The lexemes registered in the lexeme table.
RegisteredLexemes == DOMAIN lexemeToType \cup DOMAIN lexemeToTypeExt

\* The type the lexeme table registers for a lexeme.
RegisteredType(l) ==
  IF l \in DOMAIN lexemeToType THEN lexemeToType[l] ELSE lexemeToTypeExt[l]

\* C7: every token that starts at a letter is either a registered keyword that
\* is the whole alphabetic run at its position, or, when that run is no
\* registered keyword, the first character of the run alone: typed as the
\* table types it when it is a single-letter lexeme, as a Variable otherwise.
C7_AlphabeticRunLexing ==
  \A k \in 1..Len(tokens) :
    LET token == tokens[k]
        run == scanWord(texStr, token.pos)
        first == charAt(run, 0)
    IN (token.type # "Eof" /\ isAlpha(charAt(texStr, token.pos))) =>
         IF run \in RegisteredLexemes
         THEN token.lexeme = run /\ token.type = RegisteredType(run)
         ELSE /\ token.lexeme = first
              /\ token.type = IF first \in RegisteredLexemes THEN RegisteredType(first)
                              ELSE "Variable"

\* str is a run of letters that is no registered lexeme.
IsPlainWord(str) ==
  /\ str # ""
  /\ scanWord(str, 0) = str
  /\ str \notin RegisteredLexemes

\* C6: a run of two or more adjacent bare letters that is not a keyword is
\* parsed as one symbol named by the whole run, and the sum of two such runs
\* is the sum of the two symbols.
C6_MultiLetterSymbol ==
  phase \in {"parsed", "ParseError"} =>
    /\ (IsPlainWord(texStr) /\ Len(texStr) >= 2) =>
         (phase = "parsed" /\ root = SymbolNode(texStr))
    /\ \A k \in 2..(Len(texStr) - 2) :
         LET left == slice(texStr, 0, k)
             right == slice(texStr, k + 1, Len(texStr))
         IN (charAt(texStr, k) = "+" /\ IsPlainWord(left) /\ IsPlainWord(right)
             /\ Len(right) >= 2) =>
              (phase = "parsed"
               /\ root = OperatorNode("+", "add", <<SymbolNode(left), SymbolNode(right)>>))

\* C8: a braced multi-letter subscript is a single symbol: c_{de} parses to
\* Accessor(Symbol c, Index(Symbol de)).
C8_BracedSubscriptSymbol ==
  phase \in {"parsed", "ParseError"} =>
    LET base == charAt(texStr, 0)
        index == slice(texStr, 3, Len(texStr) - 1)
    IN (/\ Len(texStr) >= 6
        /\ IsPlainWord(base)
        /\ slice(texStr, 1, 3) = "_{"
        /\ charAt(texStr, Len(texStr) - 1) = "}"
        /\ IsPlainWord(index)) =>
         (phase = "parsed"
          /\ root = AccessorNode(SymbolNode(base), IndexNode(<<SymbolNode(index)>>)))

\* The types of the tokens of the list.
TokenTypes == [k \in 1..Len(tokens) |-> tokens[k].type]

\* The number of tokens before the end-of-input token.
TokenCount == Len(tokens) - 1

\* parseTokens has returned or thrown.
ParseDone == phase \in {"parsed", "ParseError"}

\* C3: two adjacent numeric literals are always rejected: no accepted parse
\* has consumed a Number token that directly follows another Number token.
C3_AdjacentNumbersRejected ==
  phase = "parsed" =>
    \A k \in 1..(pos - 1) : ~(tokens[k].type = "Number" /\ tokens[k + 1].type = "Number")

\* The tokens | X | written with \left and \right.
WithLeftRight ==
  <<Token("\\left", "Left", 0), tokens[1]>>
  \o SubSeq(tokens, 2, TokenCount - 1)
  \o <<Token("\\right", "Right", 0), tokens[TokenCount], tokens[Len(tokens)]>>

\* The tokens have parsed to the tree the reference parse returns, when that
\* parse returns one for all of its n tokens.
ParsedAs(reference, n) ==
  (reference.ok /\ reference.pos = n) => (phase = "parsed" /\ root = reference.node)

ParsedAsAbs(inner) ==
  (inner.ok /\ inner.pos = TokenCount - 4) =>
    (phase = "parsed" /\ pos = TokenCount /\ root = FunctionNode("abs", <<inner.node>>))

Closer(open) ==
  CASE open = "Lparen" -> "Rparen"
    [] open = "Lbrace" -> "Rbrace"
    [] open = "Bar" -> "Bar"

\* The tokens toks[k..] close the groupings open on the stack, innermost last,
\* and open and close their own: each opening token is closed by its
\* counterpart, with \right before the closer iff \left was before the opener.
RECURSIVE Balanced(_, _, _)
Balanced(toks, k, stack) ==
  IF k > Len(toks) THEN stack = <<>>
  ELSE
  LET t == toks[k].type
      top == stack[Len(stack)]
      popped == SubSeq(stack, 1, Len(stack) - 1)
  IN
  CASE t = "Left" ->
         /\ k < Len(toks)
         /\ toks[k + 1].type \in {"Lparen", "Lbrace", "Bar"}
         /\ Balanced(toks, k + 2, Append(stack, [open |-> toks[k + 1].type, left |-> TRUE]))
    [] t = "Right" ->
         /\ k < Len(toks)
         /\ stack # <<>>
         /\ top.left
         /\ toks[k + 1].type = Closer(top.open)
         /\ Balanced(toks, k + 2, popped)
    [] t \in {"Lparen", "Lbrace"} ->
         Balanced(toks, k + 1, Append(stack, [open |-> t, left |-> FALSE]))
    [] t \in {"Rparen", "Rbrace"} ->
         /\ stack # <<>>
         /\ ~top.left
         /\ t = Closer(top.open)
         /\ Balanced(toks, k + 1, popped)
    [] t = "Bar" ->
         IF stack # <<>> /\ top.open = "Bar" /\ ~top.left
         THEN Balanced(toks, k + 1, popped)
         ELSE Balanced(toks, k + 1, Append(stack, [open |-> "Bar", left |-> FALSE]))
    [] OTHER -> Balanced(toks, k + 1, stack)

\* C5: delimiters are balanced in every accepted grouping: in the tokens an
\* accepted parse has consumed, every opening token is closed by the
\* counterpart of its kind, and \right stands immediately before the closer
\* if and only if \left stood before the opener.
C5_DelimitersBalanced ==
  phase = "parsed" => Balanced(SubSeq(tokens, 1, pos), 1, <<>>)

\* \left( x \right) has been accepted.
C5_Witness ==
  /\ phase = "parsed"
  /\ pos = 5
  /\ TokenTypes = <<"Left", "Lparen", "Variable", "Right", "Rparen", "Eof">>

\* The tokens are v0 _ v1 ... _ vn, or v0 _ v1 ... _ vn ^ w, of variables.
IsSubscriptChain ==
  /\ TokenCount >= 3
  /\ TokenCount % 2 = 1
  /\ \A k \in 1..TokenCount :
       IF k % 2 = 1 THEN tokens[k].type = "Variable"
       ELSE IF k = TokenCount - 1 THEN tokens[k].type \in {"Underscore", "Caret"}
       ELSE tokens[k].type = "Underscore"

\* The accessor of the first k tokens of a chain, nested to the left over the base.
RECURSIVE LeftNested(_)
LeftNested(k) ==
  IF k = 1 THEN SymbolNode(tokens[1].lexeme)
  ELSE AccessorNode(LeftNested(k - 2), IndexNode(<<SymbolNode(tokens[k].lexeme)>>))

\* C9: subscripts chain and nest to the left over the base: a_b is
\* Accessor(a, Index[b]), every further _x wraps the accessor built so far, and
\* a subscript binds tighter than ^: a_b^c is pow(Accessor(a, Index[b]), c).
C9_SubscriptsNestLeft ==
  (ParseDone /\ IsSubscriptChain) =>
    /\ phase = "parsed"
    /\ pos = TokenCount
    /\ root = IF tokens[TokenCount - 1].type = "Caret"
              THEN OperatorNode("^", "pow", <<LeftNested(TokenCount - 2),
                                              SymbolNode(tokens[TokenCount].lexeme)>>)
              ELSE LeftNested(TokenCount)

\* a_b_a has parsed to the accessor over the accessor a_b.
C9_Witness ==
  /\ phase = "parsed"
  /\ TokenTypes = <<"Variable", "Underscore", "Variable", "Underscore", "Variable", "Eof">>
  /\ root.type = "AccessorNode"
  /\ root.object.type = "AccessorNode"

\* The tokens left ^ right have parsed to transpose(left) when right is the
\* symbol T and to the power node over both otherwise.
TransposeOrPowerOf(left, right) ==
  (right.ok /\ right.pos = TokenCount) =>
    /\ phase = "parsed"
    /\ root = IF right.node = SymbolNode("T")
              THEN FunctionNode("transpose", <<left.node>>)
              ELSE OperatorNode("^", "pow", <<left.node, right.node>>)

\* The same, for the tokens that are a left operand, ^ and one primary.
TransposeOrPower(left) ==
  (left.ok /\ left.pos < TokenCount /\ tokens[left.pos + 1].type = "Caret") =>
    TransposeOrPowerOf(left, nextPrimary(tokens, left.pos + 1))

\* C10: whenever the right operand of ^ is the symbol T, bare or alone inside
\* a grouping, the result is the transpose function call over the left operand
\* only; for every other right operand it is the power node over both operands.
C10_TransposeSpecialCase ==
  (ParseDone /\ TokenCount >= 3) => TransposeOrPower(nextSubscript(tokens, 0))

\* a^{T} has parsed to transpose(a).
C10_Witness ==
  /\ phase = "parsed"
  /\ TokenTypes = <<"Variable", "Caret", "Lbrace", "T", "Rbrace", "Eof">>
  /\ root = FunctionNode("transpose", <<SymbolNode("a")>>)

\* The children of a node, in order.
Children(node) ==
  CASE node.type \in {"OperatorNode", "FunctionNode"} -> node.args
    [] node.type = "AccessorNode" -> <<node.object, node.index>>
    [] node.type = "IndexNode" -> node.dimensions
    [] node.type = "AssignmentNode" -> <<node.object, node.value>>
    [] node.type = "ArrayNode" -> node.items
    [] OTHER -> <<>>

\* The nodes of the tree under node, node included.
RECURSIVE Subtrees(_)
Subtrees(node) ==
  {node} \cup UNION {Subtrees(Children(node)[k]) : k \in DOMAIN Children(node)}

SymbolLexemes == DOMAIN lexemeToSymbol

\* The index of the first token of type at or after k, 0 when there is none.
RECURSIVE FirstOfType(_, _, _)
FirstOfType(toks, k, type) ==
  IF k > Len(toks) THEN 0
  ELSE IF toks[k].type = type THEN k
  ELSE FirstOfType(toks, k + 1, type)

\* The name the tokens from..to spell, every Symbol token by its canonical
\* spelling, every other token by its lexeme.
RECURSIVE CanonicalName(_, _, _)
CanonicalName(toks, from, to) ==
  IF from > to THEN ""
  ELSE (IF toks[from].type = "Symbol" THEN lexemeToSymbol[toks[from].lexeme]
        ELSE toks[from].lexeme) \o CanonicalName(toks, from + 1, to)

\* The tokens start with \operatorname{ and the parse returned a call.
IsCustomCall ==
  /\ phase = "parsed"
  /\ Len(tokens) >= 4
  /\ tokens[1].type = "Opname"
  /\ tokens[2].type = "Lbrace"
  /\ root.type = "FunctionNode"

\* C11: canonicalization: every command that is a symbol lexeme is tokenized
\* as one Symbol token; a Symbol token parses to the Symbol node named by the
\* canonical spelling of the symbol table, so no Symbol node of a returned tree
\* is named by a raw TeX lexeme; the name of a custom function spells every
\* Symbol token between the braces of \operatorname{...} canonically.
C11_SymbolsCanonical ==
  /\ \A k \in DOMAIN tokens :
       tokens[k].lexeme \in SymbolLexemes => tokens[k].type = "Symbol"
  /\ (texStr \in SymbolLexemes /\ phase # "lex") =>
       /\ phase = "lexed" \/ phase = "parsed"
       /\ tokens[1] = Token(texStr, "Symbol", 0)
  /\ phase = "parsed" =>
       /\ \A n \in Subtrees(root) :
            n.type = "SymbolNode" => n.name \notin SymbolLexemes \cup {undefined}
       /\ (TokenCount = 1 /\ tokens[1].type = "Symbol") =>
            root = SymbolNode(lexemeToSymbol[tokens[1].lexeme])
  /\ IsCustomCall =>
       root.fn = CanonicalName(tokens, 3, FirstOfType(tokens, 3, "Rbrace") - 1)

\* A custom function whose name holds a symbol command has been parsed.
C11_Witness ==
  /\ IsCustomCall
  /\ \E k \in 3..(FirstOfType(tokens, 3, "Rbrace") - 1) : tokens[k].type = "Symbol"
  /\ FirstOfType(tokens, 3, "Rbrace") > 4

\* The tokens between \begin{bmatrix} and \end{bmatrix}.
MatrixBody == SubSeq(tokens, Len(MatrixHeader) + 1, TokenCount - Len(MatrixFooter))

\* The body is a grid: single-token elements with & or \\ between them.
IsGrid(body) ==
  /\ Len(body) % 2 = 1
  /\ \A k \in DOMAIN body :
       IF k % 2 = 1 THEN body[k].type \in {"Variable", "Number"}
       ELSE body[k].type \in {"Amp", "Dblbackslash"}

\* The node of a single-token element.
ElementNode(token) ==
  IF token.type = "Number" THEN ConstantNode(token.lexeme, TRUE)
  ELSE SymbolNode(token.lexeme)

\* A closed row as the matrix stores it.
StoredRow(elements) ==
  IF Len(elements) = 1 THEN elements[1] ELSE ArrayNode(elements)

\* The rows of a grid from its k-th token on, row holding the elements of the
\* current row read so far.
RECURSIVE GridRows(_, _, _)
GridRows(body, k, row) ==
  LET elements == Append(row, ElementNode(body[k])) IN
  IF k = Len(body) THEN <<StoredRow(elements)>>
  ELSE IF body[k + 1].type = "Amp" THEN GridRows(body, k + 2, elements)
  ELSE <<StoredRow(elements)>> \o GridRows(body, k + 2, <<>>)

\* C12: matrix rows: & appends an element to the current row, \\ or \end
\* closes it; a closed row of one element is stored as that bare element, a
\* row of two or more as a row node of its elements in input order, rows in
\* input order; rows of different lengths are accepted without error.
C12_MatrixRows ==
  (ParseDone /\ IsGrid(MatrixBody)) =>
    /\ phase = "parsed"
    /\ root = ArrayNode(GridRows(MatrixBody, 1, <<>>))
    /\ pos = TokenCount

\* A matrix with a one-element row and a longer row has been parsed.
C12_Witness ==
  /\ phase = "parsed"
  /\ IsGrid(MatrixBody)
  /\ \E r \in DOMAIN root.items : root.items[r].type = "ArrayNode"
  /\ \E r \in DOMAIN root.items : root.items[r].type # "ArrayNode"
  /\ Len(root.items) >= 3

\* The index of the } that closes a brace opened before k, depth braces being
\* open at k; 0 when it is never closed.
RECURSIVE ClosingBrace(_, _, _)
ClosingBrace(toks, k, depth) ==
  IF k > Len(toks) THEN 0
  ELSE IF toks[k].type = "Lbrace" THEN ClosingBrace(toks, k + 1, depth + 1)
  ELSE IF toks[k].type = "Rbrace"
  THEN IF depth = 1 THEN k ELSE ClosingBrace(toks, k + 1, depth - 1)
  ELSE ClosingBrace(toks, k + 1, depth)

StartsWithFrac == TokenCount >= 1 /\ tokens[1].type = "Frac"

\* The tokens are \frac{v} followed by the denominator {w} or w, for variables
\* v and w.
IsSimpleFrac ==
  /\ StartsWithFrac
  /\ TokenCount \in {5, 7}
  /\ tokens[2].type = "Lbrace"
  /\ tokens[3].type = "Variable"
  /\ tokens[4].type = "Rbrace"
  /\ IF TokenCount = 7
     THEN tokens[5].type = "Lbrace" /\ tokens[6].type = "Variable"
          /\ tokens[7].type = "Rbrace"
     ELSE tokens[5].type = "Variable"

\* The divide node over the numerator and the denominator of a simple fraction.
SimpleFracNode ==
  OperatorNode("\\frac", "divide",
               <<SymbolNode(tokens[3].lexeme),
                 SymbolNode(tokens[IF TokenCount = 7 THEN 6 ELSE 5].lexeme)>>)

\* C13: fraction braces: \frac must be followed by { numerator } (a missing
\* opening or closing numerator brace raises ParseError); the denominator may
\* be written with braces or without; both forms yield a divide node with the
\* children (numerator, denominator) in that order.
C13_FracBraces ==
  /\ (ParseDone /\ StartsWithFrac
        /\ (tokens[2].type # "Lbrace" \/ ClosingBrace(tokens, 3, 1) = 0)) =>
       phase = "ParseError"
  /\ (ParseDone /\ IsSimpleFrac) =>
       /\ phase = "parsed"
       /\ root = SimpleFracNode
       /\ pos = TokenCount
  /\ phase = "parsed" =>
       \A n \in Subtrees(root) :
         (n.type = "OperatorNode" /\ n.op = "\\frac") =>
           n.fn = "divide" /\ Len(n.args) = 2

\* A fraction with a bare denominator has been parsed.
C13_Witness ==
  /\ phase = "parsed"
  /\ IsSimpleFrac
  /\ TokenCount = 5
  /\ tokens[3].lexeme # tokens[5].lexeme

\* The number of cross calls in the tree under node, and in a list of trees.
RECURSIVE CrossCalls(_)
RECURSIVE CrossCallsIn(_)
CrossCalls(node) ==
  (IF node.type = "FunctionNode" /\ node.fn = "cross" THEN 1 ELSE 0)
  + CrossCallsIn(Children(node))

CrossCallsIn(nodes) ==
  IF nodes = <<>> THEN 0 ELSE CrossCalls(Head(nodes)) + CrossCallsIn(Tail(nodes))

\* The number of tokens of type among the first n tokens.
RECURSIVE TokensOfType(_, _)
TokensOfType(type, n) ==
  IF n = 0 THEN 0
  ELSE (IF tokens[n].type = type THEN 1 ELSE 0) + TokensOfType(type, n - 1)

\* The tokens are: operand, operator, operand.
IsBinaryProduct ==
  /\ TokenCount = 3
  /\ tokens[1].type \in {"Number", "Variable"}
  /\ tokens[2].type \in {"Star", "Times"}
  /\ tokens[3].type \in {"Number", "Variable"}

\* C14: \times denotes the cross product: an explicit \times between two
\* factors yields a function call named cross over (left, right), not a
\* multiply operator node, while * and \cdot both yield an operator node with
\* operation multiply.
C14_TimesIsCross ==
  /\ (ParseDone /\ IsBinaryProduct) =>
       /\ phase = "parsed"
       /\ root.args = <<ElementNode(tokens[1]), ElementNode(tokens[3])>>
       /\ IF tokens[2].type = "Times"
          THEN root.type = "FunctionNode" /\ root.fn = "cross"
          ELSE root.type = "OperatorNode" /\ root.fn = "multiply"
               /\ root.op = tokens[2].lexeme
  /\ phase = "parsed" =>
       /\ CrossCalls(root) = TokensOfType("Times", pos)
       /\ \A n \in Subtrees(root) :
            n.type = "OperatorNode" =>
              /\ n.op # "\\times"
              /\ (n.op \in {"*", "\\cdot"}) <=> (n.fn = "multiply")

\* A cross product and a multiplication have been parsed in one term.
C14_Witness ==
  /\ phase = "parsed"
  /\ CrossCalls(root) = 1
  /\ \E n \in Subtrees(root) : n.type = "OperatorNode" /\ n.op = "\\cdot"

\* No token is the asterisk: every operator node named * is synthesized.
NoAsterisk == \A k \in DOMAIN tokens : tokens[k].lexeme # "*"

\* C20: implicit marking is exact: a node built by nextTerm is marked implicit
\* if and only if it was synthesized from the adjacency of two operands; a node
\* built from an explicit \cdot, \times or / token is never marked implicit,
\* also when it follows an implicit multiplication in the same term.
C20_ImplicitMarkingExact ==
  (phase = "parsed" /\ NoAsterisk) =>
    \A n \in Subtrees(root) :
      "implicit" \in DOMAIN n =>
        (n.implicit <=> (n.type = "OperatorNode" /\ n.op = "*"))

\* C15: every custom function listed in the README (eigenvectors,
\* eigenvalues, cross, proj, comp, norm, inv), written as \operatorname{name}
\* followed by an argument, parses to a function call whose function name is
\* the identifier re-assembled from the tokens between the braces and whose
\* arguments are the parsed argument list.
C15_CustomFunctionsParse ==
  \A name \in ReadmeFunctions : \A arg \in DOMAIN CustomArgs :
    texStr = CustomCall(name, arg) =>
      \/ phase \in {"lex", "lexed"}
      \/ phase = "parsed" /\ root = FunctionNode(name, CustomArgs[arg])

\* The call was neither refused by the lexer nor by the parser, and what it
\* parsed to is a function call over the argument and the base.
AcceptedWithBase ==
  /\ phase \notin {"LexError", "ParseError"}
  /\ phase = "parsed" => root.type = "FunctionNode" /\ Len(root.args) = 2

\* C16: functions with custom bases are accepted: \log_b{x} parses to a
\* logarithm of x with base b and \sqrt[n]{x} to the n-th root of x; neither
\* raises a LexError or a ParseError.
C16_CustomBasesAccepted ==
  \A arg \in BaseArgs :
    /\ \A b \in LogBases : texStr = "\\log" \o b \o arg => AcceptedWithBase
    /\ \A r \in RootIndices : texStr = "\\sqrt" \o r \o arg => AcceptedWithBase

\* text occurs in str.
Contains(str, text) ==
  \E k \in 0..(Len(str) - Len(text)) : slice(str, k, k + Len(text)) = text

\* The lexeme the lexer was reading at k: the command for a backslash, the
\* character otherwise.
LexemeAt(str, k) ==
  IF charAt(str, k) = "\\" THEN "\\" \o scanWord(str, k + 1) ELSE charAt(str, k)

\* C17: every error raised by tokenize or parse carries a message that names
\* both the offending lexeme and its input position: for each LexError kind
\* (invalid control character, unknown command, unrecognized character) and
\* each ParseError, the message contains the lexeme text and the character
\* offset at which it starts.
C17_ErrorNamesLexemeAndPosition ==
  /\ phase = "LexError" =>
       /\ Contains(messageOf(error), LexemeAt(texStr, error.pos))
       /\ Contains(messageOf(error), decimal(error.pos))
  /\ phase = "ParseError" =>
       /\ \E k \in DOMAIN tokens : tokens[k] = error.token
       /\ Contains(messageOf(error), error.token.lexeme)
       /\ Contains(messageOf(error), decimal(error.token.pos))
       /\ error.token.type # "Eof" =>
            slice(texStr, error.token.pos, error.token.pos + Len(error.token.lexeme))
              = error.token.lexeme

\* C18: end-of-input sentinel: every token sequence tokenizeTex returns ends
\* with exactly one end-of-input token, no end-of-input token occurs before the
\* last position, and the sentinel's position equals the length of the input
\* string.
C18_EofSentinel ==
  phase = "lexed" =>
    /\ tokens # <<>>
    /\ tokens[Len(tokens)] = Token("EOF", "Eof", Len(texStr))
    /\ \A k \in 1..(Len(tokens) - 1) : tokens[k].type # "Eof"

\* A string with a space between its lexemes has been tokenized.
C18_Witness ==
  /\ phase = "lexed"
  /\ Len(tokens) >= 3
  /\ Len(texStr) > Len(tokens)

\* The index of the first assignment operator.
ColonAt == FirstOfType(tokens, 1, "Colon")

\* The types of the tokens left of the first assignment operator, and of those
\* right of it.
LeftTypes == [k \in 1..(ColonAt - 1) |-> tokens[k].type]
RightTokens == SubSeq(tokens, ColonAt + 2, TokenCount)

Operands == {"Variable", "Number"}

\* The left-hand side is a single symbol, bare or in parentheses.
IsSymbolSide ==
  LeftTypes \in {<<"Variable">>, <<"Lparen", "Variable", "Rparen">>}

\* The left-hand side is a number, a product, a function call or the grouping
\* of a number.
IsOtherExpressionSide ==
  \/ LeftTypes = <<"Number">>
  \/ /\ Len(LeftTypes) \in {2, 3}
     /\ \A k \in DOMAIN LeftTypes : LeftTypes[k] \in Operands
     /\ \A k \in 1..(Len(LeftTypes) - 1) :
          ~(LeftTypes[k] = "Number" /\ LeftTypes[k + 1] = "Number")
  \/ Len(LeftTypes) = 2 /\ LeftTypes[1] = "Sin" /\ LeftTypes[2] \in Operands
  \/ LeftTypes = <<"Lparen", "Number", "Rparen">>

\* The symbol of a symbol side.
TargetSymbol == SymbolNode(tokens[IF ColonAt = 2 THEN 1 ELSE 2].lexeme)

\* The right-hand side is v, v = w or v := w, for variables v and w.
IsSimpleValue ==
  LET types == [k \in DOMAIN RightTokens |-> RightTokens[k].type] IN
  types \in {<<"Variable">>, <<"Variable", "Equals", "Variable">>,
             <<"Variable", "Colon", "Equals", "Variable">>}

\* The comparison a simple right-hand side denotes.
SimpleValue ==
  LET first == SymbolNode(RightTokens[1].lexeme)
      last == SymbolNode(RightTokens[Len(RightTokens)].lexeme)
  IN CASE Len(RightTokens) = 1 -> first
       [] Len(RightTokens) = 3 -> OperatorNode("==", "equal", <<first, last>>)
       [] Len(RightTokens) = 4 -> AssignmentNode(first, last)

\* C19: assignment: when an expression is followed by the assignment operator,
\* parseTokens builds Assignment(target, value) only if the left-hand
\* expression is a single Symbol node, the value being parsed as a full
\* comparison (so assignments nest to the right); any other left-hand
\* expression (number, product, function call, grouping of a non-symbol)
\* raises ParseError and no tree is returned.
C19_AssignmentTarget ==
  /\ (ParseDone /\ IsSymbolSide /\ IsSimpleValue) =>
       /\ phase = "parsed"
       /\ root = AssignmentNode(TargetSymbol, SimpleValue)
       /\ pos = TokenCount
  /\ (ParseDone /\ IsOtherExpressionSide) =>
       /\ phase = "ParseError"
       /\ root = NoNode
       /\ error.token = tokens[ColonAt - 1]
  /\ phase = "parsed" =>
       \A n \in Subtrees(root) :
         n.type = "AssignmentNode" => n.object.type = "SymbolNode"

\* An assignment whose value is an assignment has been parsed.
C19_Witness ==
  /\ phase = "parsed"
  /\ IsSymbolSide
  /\ root.type = "AssignmentNode"
  /\ root.value.type = "AssignmentNode"

\* The number of operator nodes with operation fn in the tree under node, and
\* in a list of trees.
RECURSIVE OperatorCount(_, _)
RECURSIVE OperatorCountIn(_, _)
OperatorCount(node, fn) ==
  (IF node.type = "OperatorNode" /\ node.fn = fn THEN 1 ELSE 0)
  + OperatorCountIn(Children(node), fn)

OperatorCountIn(nodes, fn) ==
  IF nodes = <<>> THEN 0
  ELSE OperatorCount(Head(nodes), fn) + OperatorCountIn(Tail(nodes), fn)

\* The token types an operand ends with.
OperandEndTypes == {"Variable", "Number", "Symbol", "E", "T", "Rparen", "Rbrace"}

\* The k-th token stands where a factor starts: no operand ends before it.
StartsFactor(k) == k = 1 \/ tokens[k - 1].type \notin OperandEndTypes

\* The consumed - tokens that start a factor, and those that follow an operand.
UnaryMinusTokens == {k \in 1..pos : tokens[k].type = "Minus" /\ StartsFactor(k)}
BinaryMinusTokens == {k \in 1..pos : tokens[k].type = "Minus" /\ ~StartsFactor(k)}

\* The tokens - X have parsed to unaryMinus over the tree of the power X, when
\* X is a power that takes all the tokens after the -.
NegatedPower(power) ==
  (power.ok /\ power.pos = TokenCount) =>
    (phase = "parsed" /\ root = OperatorNode("-", "unaryMinus", <<power.node>>))

\* C21: unary minus versus subtraction: a - at the start of a factor yields a
\* one-operand unaryMinus node over the following power (-x^5 is
\* unaryMinus(pow(x, 5))); a - between two terms yields a two-operand subtract
\* node (5-x is subtract(5, x), never a product with a negated factor); a
\* second - after a unary - and a - directly after ^ raise ParseError.
C21_UnaryMinusVsSubtraction ==
  /\ (ParseDone /\ TokenCount >= 2 /\ tokens[1].type = "Minus") =>
       NegatedPower(nextPower(tokens, 1))
  /\ (ParseDone /\ TokenTypes = <<"Minus", "Variable", "Caret", "Number", "Eof">>) =>
       root = OperatorNode("-", "unaryMinus",
                <<OperatorNode("^", "pow", <<ElementNode(tokens[2]),
                                             ElementNode(tokens[4])>>)>>)
  /\ (ParseDone /\ TokenCount = 3 /\ tokens[2].type = "Minus"
      /\ tokens[1].type \in Operands /\ tokens[3].type \in Operands) =>
       /\ phase = "parsed"
       /\ root = OperatorNode("-", "subtract",
                              <<ElementNode(tokens[1]), ElementNode(tokens[3])>>)
  /\ phase = "parsed" =>
       /\ OperatorCount(root, "unaryMinus") = Cardinality(UnaryMinusTokens)
       /\ OperatorCount(root, "subtract") = Cardinality(BinaryMinusTokens)
       /\ \A n \in Subtrees(root) :
            (n.type = "OperatorNode" /\ n.op = "-") =>
              Len(n.args) = IF n.fn = "unaryMinus" THEN 1 ELSE 2
       /\ \A k \in 1..pos :
            tokens[k + 1].type = "Minus" =>
              /\ tokens[k].type # "Caret"
              /\ ~(tokens[k].type = "Minus" /\ StartsFactor(k))
  /\ (ParseDone /\ TokenCount >= 2 /\ tokens[1].type = "Minus"
      /\ tokens[2].type = "Minus") => phase = "ParseError"
  /\ (ParseDone /\ TokenCount >= 3 /\ tokens[1].type \in Operands
      /\ tokens[2].type = "Caret" /\ tokens[3].type = "Minus") => phase = "ParseError"

\* -x^5 has parsed to the negation of the power.
C21_Witness ==
  /\ phase = "parsed"
  /\ TokenTypes = <<"Minus", "Variable", "Caret", "Number", "Eof">>
  /\ root.fn = "unaryMinus"
  /\ root.args[1].fn = "pow"

\* The tokens are ( C ) or { C }.
IsWrapped ==
  /\ TokenCount >= 3
  /\ <<tokens[1].type, tokens[TokenCount].type>>
       \in {<<"Lparen", "Rparen">>, <<"Lbrace", "Rbrace">>}

\* The tokens of C, with the end-of-input token after them.
WrappedTokens == Append(SubSeq(tokens, 2, TokenCount - 1), tokens[Len(tokens)])

\* The tokens ( C ) have parsed to the tree the parse of C alone returns, when
\* that parse returns one for all of C.
ParsedAsContent(content) ==
  (content.ok /\ content.pos = TokenCount - 2) =>
    (phase = "parsed" /\ root = content.node /\ pos = TokenCount)

\* C22: the content of a parenthesised or braced grouping is a comparison: for
\* every comparison C that parses on its own, one with a comparison operator
\* such as a = b included, ( C ) and { C } parse to the tree of C.
C22_GroupingContentIsComparison ==
  (ParseDone /\ IsWrapped) => ParsedAsContent(parseTokens(WrappedTokens))

\* The shape of a tree: the name of a leaf, the operation of an inner node over
\* the shapes of its operands.
RECURSIVE Shape(_)
Shape(node) ==
  CASE node.type = "SymbolNode" -> <<node.name>>
    [] node.type = "ConstantNode" -> <<node.value>>
    [] node.type = "AccessorNode" ->
         <<"index", Shape(node.object), Shape(node.index.dimensions[1])>>
    [] node.type \in {"OperatorNode", "FunctionNode"} ->
         IF Len(node.args) = 1 THEN <<node.fn, Shape(node.args[1])>>
         ELSE <<node.fn, Shape(node.args[1]), Shape(node.args[2])>>

\* The levels of binding strength, loosest first.
Productions ==
  <<"comparison", "expression", "term", "factor", "power", "subscript", "primary">>
LevelOf(production) == CHOOSE k \in DOMAIN Productions : Productions[k] = production
ComparisonLevel == LevelOf("comparison")
AdditiveLevel == LevelOf("expression")
MultiplicativeLevel == LevelOf("term")
UnaryMinusLevel == LevelOf("factor")
PowerLevel == LevelOf("power")
SubscriptLevel == LevelOf("subscript")
OperandLevel == LevelOf("primary")

\* The level of the operation at the root of a tree.
Level(node) ==
  CASE node.type = "AccessorNode" -> SubscriptLevel
    [] node.type = "FunctionNode" /\ node.fn = "cross" -> MultiplicativeLevel
    [] node.type = "OperatorNode" /\ node.fn = "equal" -> ComparisonLevel
    [] node.type = "OperatorNode" /\ node.fn \in {"add", "subtract"} -> AdditiveLevel
    [] node.type = "OperatorNode" /\ node.fn \in {"multiply", "divide"} ->
         MultiplicativeLevel
    [] node.type = "OperatorNode" /\ node.fn = "unaryMinus" -> UnaryMinusLevel
    [] node.type = "OperatorNode" /\ node.fn = "pow" -> PowerLevel
    [] OTHER -> OperandLevel

\* The level of an infix operator token, and the operation it denotes.
TokenLevel(token) ==
  CASE token.type = "Equals" -> ComparisonLevel
    [] token.type \in {"Plus", "Minus"} -> AdditiveLevel
    [] token.type \in {"Star", "Times", "Slash"} -> MultiplicativeLevel
    [] token.type = "Caret" -> PowerLevel
    [] token.type = "Underscore" -> SubscriptLevel

TokenOperation(token) ==
  CASE token.type = "Equals" -> "equal"
    [] token.type = "Plus" -> "add"
    [] token.type = "Minus" -> "subtract"
    [] token.type = "Star" -> "multiply"
    [] token.type = "Times" -> "cross"
    [] token.type = "Slash" -> "divide"
    [] token.type = "Caret" -> "pow"
    [] token.type = "Underscore" -> "index"

\* In an ungrouped tree, no operand of a node binds looser than the node: the
\* left operand binds at least as tight, every other operand tighter.
RespectsLevels(node) ==
  CASE node.type = "AccessorNode" ->
         /\ Level(node.object) >= SubscriptLevel
         /\ \A d \in DOMAIN node.index.dimensions :
              Level(node.index.dimensions[d]) > SubscriptLevel
    [] node.type \in {"OperatorNode", "FunctionNode"} ->
         IF Len(node.args) = 1 THEN Level(node.args[1]) > Level(node)
         ELSE /\ Level(node.args[1]) >= Level(node)
              /\ Level(node.args[2]) > Level(node)
    [] OTHER -> TRUE

\* The tokens are x op y op z, for variables x, y and z.
IsInfixChain ==
  /\ TokenCount = 5
  /\ \A k \in {1, 3, 5} : tokens[k].type = "Variable"
  /\ \A k \in {2, 4} : tokens[k].type \notin {"Variable", "Eof"}

\* The shape precedence and left associativity give x op y op z: the second
\* operator takes y when it binds tighter than the first, else the first.
ChainShape ==
  LET x == <<tokens[1].lexeme>>
      y == <<tokens[3].lexeme>>
      z == <<tokens[5].lexeme>>
      first == TokenOperation(tokens[2])
      second == TokenOperation(tokens[4])
  IN IF TokenLevel(tokens[4]) > TokenLevel(tokens[2])
     THEN <<first, x, <<second, y, z>>>>
     ELSE <<second, <<first, x, y>>, z>>

\* The levels whose chains the grammar repeats.
ChainLevels == {AdditiveLevel, MultiplicativeLevel, PowerLevel}

TokenLexemes == [k \in 1..TokenCount |-> tokens[k].lexeme]

\* C23: precedence and associativity: binding strength increases comparison <
\* additive < multiplicative < unary minus < power < subscript, and chains at
\* the additive, multiplicative and power levels associate to the left: a+b*c
\* is add(a, multiply(b, c)), a-b-c is subtract(subtract(a, b), c), a/b*c is
\* multiply(divide(a, b), c) and a^b^c is pow(pow(a, b), c).
C23_PrecedenceAndAssociativity ==
  /\ phase = "parsed" => \A n \in Subtrees(root) : RespectsLevels(n)
  /\ (ParseDone /\ IsInfixChain) =>
       /\ phase = "parsed"
       /\ pos = TokenCount => Shape(root) = ChainShape
       /\ (TokenLevel(tokens[2]) \in ChainLevels
           /\ TokenLevel(tokens[4]) = TokenLevel(tokens[2])) => pos = TokenCount
  /\ (ParseDone /\ TokenLexemes = <<"a", "+", "b", "*", "c">>) =>
       pos = TokenCount /\ Shape(root) = <<"add", <<"a">>, <<"multiply", <<"b">>, <<"c">>>>>>
  /\ (ParseDone /\ TokenLexemes = <<"a", "-", "b", "-", "c">>) =>
       pos = TokenCount /\ Shape(root) = <<"subtract", <<"subtract", <<"a">>, <<"b">>>>, <<"c">>>>
  /\ (ParseDone /\ TokenLexemes = <<"a", "/", "b", "*", "c">>) =>
       pos = TokenCount /\ Shape(root) = <<"multiply", <<"divide", <<"a">>, <<"b">>>>, <<"c">>>>
  /\ (ParseDone /\ TokenLexemes = <<"a", "^", "b", "^", "c">>) =>
       pos = TokenCount /\ Shape(root) = <<"pow", <<"pow", <<"a">>, <<"b">>>>, <<"c">>>>

\* A chain of two operators of different levels has parsed, the tighter one
\* second.
C23_Witness ==
  /\ phase = "parsed"
  /\ IsInfixChain
  /\ pos = TokenCount
  /\ TokenLevel(tokens[4]) > TokenLevel(tokens[2])
  /\ Shape(root) = ChainShape
  /\ tokens[2].type = "Minus"

\* The positions of the decimal points of str.
PointsOf(str) == {k \in 0..(Len(str) - 1) : charAt(str, k) = "."}

\* l is a run of one or more digits, optionally followed by one decimal point
\* and a run of digits.
IsNumberLexeme(l) ==
  /\ l # ""
  /\ isDigit(charAt(l, 0))
  /\ Cardinality(PointsOf(l)) <= 1
  /\ \A k \in 0..(Len(l) - 1) : isDigit(charAt(l, k)) \/ charAt(l, k) = "."

\* No longer number starts where the token does: no digit follows the token,
\* and no decimal point unless the token holds one.
IsMaximalNumber(token) ==
  LET following == charAt(texStr, token.pos + Len(token.lexeme)) IN
  /\ ~isDigit(following)
  /\ following = "." => PointsOf(token.lexeme) # {}

\* The token covers the position p of the input.
Covers(token, p) == token.pos <= p /\ p < token.pos + Len(token.lexeme)

\* C24: number tokens: at a digit, tokenizeTex emits one Number token whose
\* lexeme is the maximal run of digits optionally followed by a single decimal
\* point and a possibly empty run of digits; a second decimal point is never
\* part of the number, so 1.2.3 is not lexed as one number (its second point
\* raises LexError), and a number cannot start with a decimal point.
C24_NumberTokens ==
  /\ \A k \in DOMAIN tokens :
       LET token == tokens[k] IN
       (token.type = "Number" \/ isDigit(charAt(texStr, token.pos))) =>
         /\ token.type = "Number"
         /\ IsNumberLexeme(token.lexeme)
         /\ token.lexeme = slice(texStr, token.pos, token.pos + Len(token.lexeme))
         /\ IsMaximalNumber(token)
         /\ k > 1 => ~Covers(tokens[k - 1], token.pos - 1)
                     \/ tokens[k - 1].type # "Number"
  /\ \A p \in 0..(i - 1) :
       (isDigit(charAt(texStr, p)) \/ charAt(texStr, p) = ".") =>
         \E k \in DOMAIN tokens : tokens[k].type = "Number" /\ Covers(tokens[k], p)
  /\ phase = "LexError" =>
       (charAt(texStr, error.pos) = "." /\ error.msg = "unrecognized character \".\"")
  /\ (phase # "lex" /\ \E p \in PointsOf(texStr) :
                         p = 0 \/ ~isDigit(charAt(texStr, p - 1))
                         \/ \E q \in PointsOf(texStr) :
                              q < p /\ \A m \in (q + 1)..(p - 1) : isDigit(charAt(texStr, m))) =>
       phase = "LexError"
  /\ (phase # "lex" /\ texStr = "1.2.3") =>
       /\ phase = "LexError"
       /\ error.pos = 3
       /\ tokens = <<Token("1.2", "Number", 0)>>

\* The lexer has stopped at the second decimal point of 1.2.3.
C24_Witness ==
  /\ phase = "LexError"
  /\ texStr = "1.2.3"
  /\ tokens = <<Token("1.2", "Number", 0)>>

\* The position p of the input lies in no token before the sentinel.
Uncovered(p) == \A k \in 1..TokenCount : ~Covers(tokens[k], p)

\* The positions of the backslashes of escaped spaces.
EscapedSpaces ==
  {p \in 0..(Len(texStr) - 2) :
     charAt(texStr, p) = "\\" /\ charAt(texStr, p + 1) = " " /\ Uncovered(p)}

\* C25: token positions are faithful: in every token sequence tokenizeTex
\* returns, positions are strictly increasing, the lexeme of each token before
\* the sentinel is the text of the input at its position, tokens do not
\* overlap, every input character no token covers is whitespace or part of an
\* escaped space, and no whitespace or escaped-space token is in the sequence.
C25_TokenPositionsFaithful ==
  phase = "lexed" =>
    /\ \A k \in 1..TokenCount :
         /\ tokens[k].pos < tokens[k + 1].pos
         /\ tokens[k].pos + Len(tokens[k].lexeme) <= tokens[k + 1].pos
         /\ tokens[k].lexeme # ""
         /\ tokens[k].lexeme
              = slice(texStr, tokens[k].pos, tokens[k].pos + Len(tokens[k].lexeme))
         /\ tokens[k].type \notin {"Space", "Eof"}
         /\ tokens[k].lexeme # "\\ "
         /\ ~isWhitespace(tokens[k].lexeme)
    /\ \A p \in 0..(Len(texStr) - 1) :
         Uncovered(p) =>
           \/ isWhitespace(charAt(texStr, p))
           \/ p \in EscapedSpaces

\* A string with a space, an escaped space and a token of several characters
\* has been tokenized.
C25_Witness ==
  /\ phase = "lexed"
  /\ EscapedSpaces # {}
  /\ \E p \in 0..(Len(texStr) - 1) :
       Uncovered(p) /\ isWhitespace(charAt(texStr, p)) /\ (p - 1) \notin EscapedSpaces
  /\ \E k \in 1..TokenCount : Len(tokens[k].lexeme) > 1
  /\ TokenCount >= 2

\* The index of the end-of-input token: the last cursor position of the stream.
EofIndex == Len(tokens) - 1

\* A production entered with the cursor at p has left it inside the stream,
\* forward of p when it returned and not behind p when it threw, and the token
\* its exception names is the one at the cursor or the one before it.
MovesForward(result, p) ==
  /\ result.pos \in p..EofIndex
  /\ result.ok => result.pos > p
  /\ ~result.ok =>
       \/ result.token = currentToken(tokens, result.pos)
       \/ result.pos > p /\ result.token = previousToken(tokens, result.pos)

\* C26: for every token stream tokenizeTex produces, the parser's cursor only
\* moves forward, never consumes the end-of-input token and so never reads a
\* token index outside the stream, on successful and on failing parses alike.
C26_CursorStaysInStream ==
  ParseDone =>
    /\ pos \in 0..EofIndex
    /\ \A k \in 1..pos : tokens[k].type # "Eof"
    /\ phase = "ParseError" =>
         error.token \in {currentToken(tokens, pos)}
                         \cup {previousToken(tokens, q) : q \in {pos} \ {0}}
    /\ \A p \in 0..EofIndex :
         /\ MovesForward(nextComparison(tokens, p), p)
         /\ MovesForward(nextPrimary(tokens, p), p)
         /\ MovesForward(nextArgument(tokens, p), p)

\* A parse has failed with the cursor on the end-of-input token, after tokens
\* were consumed.
C26_Witness ==
  /\ phase = "ParseError"
  /\ pos = EofIndex
  /\ pos >= 3
  /\ error.token.type = "Eof"

\* tokenizeTex has returned or thrown.
Tokenized == phase # "lex"

\* A production entered at p that returns has consumed at least one token.
Consumes(result, p) == result.ok => result.pos > p

\* Every production, entered at any position of the stream, consumes a token
\* before it returns: so does every iteration of a loop over productions.
ProductionsConsume ==
  \A p \in 0..EofIndex :
    /\ Consumes(nextComparison(tokens, p), p)
    /\ Consumes(nextExpression(tokens, p), p)
    /\ Consumes(nextTerm(tokens, p), p)
    /\ Consumes(nextFactor(tokens, p), p)
    /\ Consumes(nextPower(tokens, p), p)
    /\ Consumes(nextSubscript(tokens, p), p)
    /\ Consumes(nextPrimary(tokens, p), p)
    /\ Consumes(nextGrouping(tokens, p), p)
    /\ Consumes(nextArgument(tokens, p), p)

\* C27: termination: tokenizeTex advances its position by at least one
\* character on every loop iteration that does not raise, every loop iteration
\* and recursive call of the parser consumes at least one token, and so
\* tokenizeTex and parseTokens terminate, with a result or an error, on every
\* finite input.
C27_Termination ==
  /\ [][LexIteration => (phase' = "lex" => (i' > i /\ i' <= Len(texStr)))]_vars
  /\ <>Tokenized
  /\ [](phase \in {"lexed", "parsed", "ParseError"} => ProductionsConsume)

\* A string with an escaped space and a grouping has been tokenized and parsed.
C27_Witness ==
  /\ phase = "parsed"
  /\ pos = EofIndex
  /\ pos >= 4
  /\ Contains(texStr, "\\ ")
  /\ Contains(texStr, "(")
  /\ i = Len(texStr)

\* The number of tokens before the grouping: a function, an operator name in
\* braces, or a symbol with an underscore or a caret.
HeadLength ==
  CASE tokens[1].type = "Sin" -> 1
    [] tokens[1].type = "Opname" -> 4
    [] tokens[1].type = "Variable" -> 2
    [] OTHER -> 0

\* The opening token of the grouping, after \left if it is given.
OpeningToken ==
  IF tokens[HeadLength + 1].type = "Left" THEN tokens[HeadLength + 2]
  ELSE tokens[HeadLength + 1]

\* The items of the grouping in input order, as nodes.
ItemNodes ==
  LET items == SelectSeq(SubSeq(tokens, HeadLength + 1, Len(tokens)),
                         LAMBDA t : t.type \in {"Variable", "Number"})
  IN [k \in 1..Len(items) |-> createMathJSNode(items[k], <<>>).node]

\* What stands before the grouping.
IsAloneGrouping == HeadLength = 0
IsFunctionArgument == tokens[1].type \in {"Sin", "Opname"}
IsSubscriptGrouping == HeadLength = 2 /\ tokens[2].type = "Underscore"
IsExponentGrouping == HeadLength = 2 /\ tokens[2].type = "Caret"

\* C28: a parenthesised or braced grouping of n comma-separated items gives
\* its n items in input order to the function it is the argument of and to
\* the subscript it is the index of; parsed as a primary (alone, or as an
\* exponent) it gives its first item only and the others are consumed and
\* dropped without an error; a grouping in bars with a comma is a ParseError
\* at the comma.
C28_CommaGroupings ==
  phase \in {"parsed", "ParseError"} =>
    IF OpeningToken.type = "Bar"
    THEN Len(ItemNodes) > 1 =>
           /\ phase = "ParseError"
           /\ error.token.type = "Comma"
           /\ error.token = tokens[pos + 1]
    ELSE /\ phase = "parsed"
         /\ pos = EofIndex
         /\ tokens[1].type = "Sin" => root = FunctionNode("sin", ItemNodes)
         /\ tokens[1].type = "Opname" => root = FunctionNode("f", ItemNodes)
         /\ IsSubscriptGrouping =>
              root = AccessorNode(SymbolNode("a"), IndexNode(ItemNodes))
         /\ IsExponentGrouping =>
              root = OperatorNode("^", "pow", <<SymbolNode("a"), ItemNodes[1]>>)
         /\ IsAloneGrouping => root = ItemNodes[1]

\* A grouping of three items parsed as a primary: the first item is the tree.
C28_Witness ==
  /\ phase = "parsed"
  /\ IsAloneGrouping
  /\ OpeningToken.type = "Lparen"
  /\ Len(ItemNodes) = 3
  /\ root = ItemNodes[1]
  /\ ItemNodes[2] # ItemNodes[1]
  /\ pos = EofIndex

\* The tokens after \begin{bmatrix}, up to \end or the end of the input.
CellTokens ==
  SelectSeq(SubSeq(tokens, Len(MatrixHeader) + 1, Len(tokens)),
            LAMBDA t : t.type \in {"Variable", "Number", "Amp", "Dblbackslash",
                                   "Rparen", "Comma"})

\* \end{bmatrix} is given.
HasFooter == \E k \in DOMAIN tokens : tokens[k].type = "End"

\* A cell of the body is empty: the body is empty or starts with a delimiter,
\* two delimiters are adjacent, or (when \end is given) the body ends with one.
HasEmptyCell(body) ==
  LET delimiters == {"Amp", "Dblbackslash"} IN
  \/ body = <<>>
  \/ body[1].type \in delimiters
  \/ \E k \in 1..(Len(body) - 1) :
       body[k].type \in delimiters /\ body[k + 1].type \in delimiters
  \/ HasFooter /\ body[Len(body)].type \in delimiters

\* The length of the longest prefix of the body that is a grid, 0 if none is.
GridPrefix(body) ==
  LET grids == {k \in DOMAIN body : IsGrid(SubSeq(body, 1, k))}
  IN IF grids = {} THEN 0 ELSE CHOOSE k \in grids : \A j \in grids : j <= k

RECURSIVE Replaced(_, _, _)
Replaced(node, old, new) ==
  LET each(nodes) == [k \in DOMAIN nodes |-> Replaced(nodes[k], old, new)] IN
  IF node = old THEN new
  ELSE CASE node.type \in {"OperatorNode", "FunctionNode"} ->
              [node EXCEPT !.args = each(node.args)]
         [] node.type = "AccessorNode" ->
              [node EXCEPT !.object = Replaced(node.object, old, new),
                           !.index = Replaced(node.index, old, new)]
         [] node.type = "IndexNode" -> [node EXCEPT !.dimensions = each(node.dimensions)]
         [] node.type = "AssignmentNode" ->
              [node EXCEPT !.object = Replaced(node.object, old, new),
                           !.value = Replaced(node.value, old, new)]
         [] node.type = "ArrayNode" -> [node EXCEPT !.items = each(node.items)]
         [] OTHER -> node

\* The number of tokens of the head: \sin, \operatorname{f} or \frac{a}.
OperandHeadLength == IF tokens[1].type = "Sin" THEN 1 ELSE 4

\* The tokens after the head, the EOF token included.
Following == SubSeq(tokens, OperandHeadLength + 1, Len(tokens))

\* A function is applied to an unbraced single-token primary.
HasBareArgument ==
  /\ tokens[1].type \in {"Sin", "Opname"}
  /\ tokens[OperandHeadLength + 1].type \in {"Variable", "Number"}

\* The call of the function on that primary alone.
BareCall ==
  FunctionNode(IF tokens[1].type = "Sin" THEN "sin" ELSE "f",
               <<ElementNode(tokens[OperandHeadLength + 1])>>)

\* The input with the function and its primary replaced by the one variable
\* s, parsed.
CallAsVariable == parseTokens(<<Token("s", "Variable", 0)>> \o Tail(Following))

\* The fraction has an unbraced denominator.
HasBareDenominator ==
  /\ tokens[1].type = "Frac"
  /\ tokens[OperandHeadLength + 1].type # "Lbrace"

\* What follows the numerator, parsed as a comparison of its own.
FollowingComparison == parseTokens(Following)

\* The fraction over that comparison.
BareFraction ==
  OperatorNode("\\frac", "divide", <<SymbolNode("a"), FollowingComparison.node>>)

====
